---- MODULE Spec2Model ----
(***************************************************************************)
(* Channel event router and adapter rendering pipeline of troublemaker.    *)
(*                                                                         *)
(*  - the run coordinator (handler.isRunning / handleStop / handleEvent),   *)
(*  - the per-chat work queue of TelegramBase (enqueueEvent, enqueueWork,   *)
(*    processQueue) and the queue-less HeartbeatAdapter.enqueueEvent.       *)
(***************************************************************************)
EXTENDS Integers, Sequences, FiniteSets, TLC

----------------------------------------------------------------------------
(* Bounds of the model *)

MaxUser == 2        \* inbound user messages (other than "stop")
MaxStops == 1       \* stop requests
MaxEvents == 2      \* enqueueEvent calls on the Telegram adapter (Spec)
MaxBurst == 7       \* enqueueEvent calls on the Telegram adapter (SpecQueue)
MaxBeats == 3       \* enqueueEvent calls on the heartbeat adapter (SpecBeat)
MaxThrows == 1      \* awaited calls that reject

(* Program constants *)

QueueCapacity == 5  \* TelegramBase.enqueueEvent: queue.length >= 5

----------------------------------------------------------------------------
(* Conversations *)

TgChan == "1"                    \* a Telegram chat id
HEARTBEAT_CHANNEL == "_heartbeat"
Chans == {TgChan, HEARTBEAT_CHANNEL}
EmailChan == "email-a_b_org"     \* `email-${payload.from...}`
WebChan == "web"                 \* payload.channelId || "web"
AllChans == Chans \cup {EmailChan, WebChan}

\* /^-?\d+$/.test(channel), on the ids of the model
IsNumericId(ch) == ch \in {"1", "-7", "42"}

VARIABLES
  channelStates,   \* keys of the channelStates map
  running,         \* ChannelState.running
  stopRequested,   \* ChannelState.stopRequested
  stopMessageTs,   \* ChannelState.stopMessageTs, 0 = undefined
  aborted,         \* runner.abort() has been signalled
  queues,          \* TelegramBase.queues
  processing,      \* TelegramBase.processing
  calls,           \* handleEvent invocations in flight, per conversation
  pendingStops,    \* handleStop calls awaiting their "_Stopping..._" post
  notices,         \* messages posted outside a run's context, by handle
  hist             \* history counters

runVars == <<channelStates, running, stopRequested, stopMessageTs, aborted,
             queues, processing, calls, pendingStops, notices, hist>>

VARIABLES
  ctx,     \* the closure variables of createContext, updatePromise included
  chat,    \* the Telegram chat: messages, applied operations, call in flight
  agent    \* the caller of the context: the calls it has issued

renderVars == <<ctx, chat, agent>>

VARIABLES
  gateway,   \* the Gateway object: routes, readyRoutes, server
  http       \* the requests the gateway has answered

gatewayVars == <<gateway, http>>

VARIABLES
  sender     \* the send_message tool: its adapters, its calls, what it sent

toolVars == <<sender>>

VARIABLES
  boot       \* main: the adapters, the position in the init loop, what started

mainVars == <<boot>>

VARIABLES
  webhook    \* the requests handed to the adapters' dispatch, and what they caused

hookVars == <<webhook>>

vars == <<runVars, renderVars, gatewayVars, toolVars, mainVars, hookVars>>

Min(a, b) == IF a < b THEN a ELSE b
Max(a, b) == IF a > b THEN a ELSE b

----------------------------------------------------------------------------
(* The state the synchronous call chains read and write, as a record *)

Snap ==
  [channelStates |-> channelStates, running |-> running,
   stopRequested |-> stopRequested, queues |-> queues,
   processing |-> processing, calls |-> calls, notices |-> notices,
   hist |-> hist]

Commit(s) ==
  /\ channelStates' = s.channelStates
  /\ running' = s.running
  /\ stopRequested' = s.stopRequested
  /\ queues' = s.queues
  /\ processing' = s.processing
  /\ calls' = s.calls
  /\ notices' = s.notices
  /\ hist' = s.hist

RemoveAt(seq, i) == [j \in 1..(Len(seq) - 1) |-> IF j < i THEN seq[j] ELSE seq[j + 1]]

\* handler.isRunning: state?.running ?? false
isRunning(ch) == ch \in channelStates /\ running[ch]

\* adapter.postMessage outside a run's context (fire and forget)
Post(s, ch, text) == [s EXCEPT !.notices[ch] = Append(@, text)]

NewCall(pc, isEvent, viaQueue) ==
  [pc |-> pc, isEvent |-> isEvent, queued |-> viaQueue, result |-> "none", ts |-> 0]

----------------------------------------------------------------------------
(* handler.handleEvent *)

\* The synchronous prefix of handleEvent, up to its first real await.
\* item "model" is a user text "/model ..." (handleSlashCommand handles it and
\* awaits a post); any other item reaches "Start run" without leaving the
\* event loop.
HandleEventEntry(s, ch, item, viaQueue) ==
  IF item = "model"
  THEN [s EXCEPT !.calls[ch] = Append(@, NewCall("slash", FALSE, viaQueue))]
  ELSE [s EXCEPT !.channelStates = @ \cup {ch},
                 !.running[ch] = TRUE,
                 !.stopRequested[ch] = FALSE,
                 !.calls[ch] = Append(@, NewCall("typing", item = "event", viaQueue)),
                 !.hist.evStarted = IF item = "event" /\ ch = TgChan THEN @ + 1 ELSE @]

----------------------------------------------------------------------------
(* TelegramBase queue *)

\* a processQueue whose loop ends without clearing this.processing
ProcessQueueLoopKeepsFlag(s, ch) ==
  IF Len(s.queues[ch]) > 0
  THEN HandleEventEntry([s EXCEPT !.queues[ch] = Tail(@)], ch, Head(s.queues[ch]), TRUE)
  ELSE s

\* The while loop of processQueue, entered at its test
ProcessQueueLoop(s, ch) ==
  IF Len(s.queues[ch]) > 0
  THEN HandleEventEntry([s EXCEPT !.queues[ch] = Tail(@)], ch, Head(s.queues[ch]), TRUE)
  ELSE [s EXCEPT !.processing[ch] = FALSE]

\* processQueue without the test of this.processing
ProcessQueueNoGuard(s, ch) == ProcessQueueLoop([s EXCEPT !.processing[ch] = TRUE], ch)

ProcessQueue(s, ch) ==
  IF s.processing[ch] THEN s
  ELSE ProcessQueueLoop([s EXCEPT !.processing[ch] = TRUE], ch)

\* mutant: the item is pushed but the drain loop is not started
EnqueueWorkNoDrain(s, ch, item) == [s EXCEPT !.queues[ch] = Append(@, item)]

EnqueueWork(s, ch, item) ==
  ProcessQueue([s EXCEPT !.queues[ch] = Append(@, item)], ch)

\* mutant: off-by-one capacity test (queue.length > 5)
EnqueueEventAcceptsOffByOne(s, ch) ==
  /\ IsNumericId(ch)
  /\ ~(Len(s.queues[ch]) > QueueCapacity)

\* TelegramBase.enqueueEvent: TRUE iff the event is accepted
EnqueueEventAccepts(s, ch) ==
  /\ IsNumericId(ch)
  /\ ~(Len(s.queues[ch]) >= QueueCapacity)

EnqueueEvent(s, ch) ==
  IF EnqueueEventAccepts(s, ch) THEN EnqueueWork(s, ch, "event") ELSE s

----------------------------------------------------------------------------
(* The end of a handleEvent invocation: its promise settles, and when the    *)
(* drain loop awaited it the loop goes on in the same turn.                  *)

Settle(s, ch, i) ==
  LET c == s.calls[ch][i]
      t == [s EXCEPT !.calls[ch] = RemoveAt(@, i),
                     !.hist.evDone = IF c.isEvent /\ ch = TgChan THEN @ + 1 ELSE @]
  IN IF c.queued THEN ProcessQueueLoop(t, ch) ELSE t

\* the promise of a work item rejects and nothing in the loop catches: the
\* promise of processQueue rejects, this.processing stays set
SettleRejectedEndsLoop(s, ch, i) ==
  [s EXCEPT !.calls[ch] = RemoveAt(@, i),
            !.hist.nReject = @ + 1, !.hist.behind = Max(@, Len(s.queues[ch]))]

\* the promise of a handleEvent invocation rejects; the catch of
\* processQueue logs "Queue error" and the loop goes on
SettleRejected(s, ch, i) ==
  Settle([s EXCEPT !.hist.nReject = @ + 1, !.hist.behind = Max(@, Len(s.queues[ch]))], ch, i)

\* a finally block that leaves state.running as it is
FinallyKeepsRunning(s, ch, i) == Settle(s, ch, i)

\* finally { state.running = false }
Finally(s, ch, i) == Settle([s EXCEPT !.running[ch] = FALSE], ch, i)

SetPc(s, ch, i, pc) == [s EXCEPT !.calls[ch][i].pc = pc]

----------------------------------------------------------------------------
Budget(f, max) == hist[f] < max
Count(s, f) == [s EXCEPT !.hist[f] = @ + 1]

(* Inputs *)

\* handleIncomingMessage without the test of handler.isRunning
UserMessageNoBusyTest(ch, item) ==
  /\ Budget("nUser", MaxUser)
  /\ LET s0 == Count([Snap EXCEPT !.hist.burst = FALSE], "nUser")
     IN Commit(EnqueueWork(s0, ch, item))
  /\ UNCHANGED <<stopMessageTs, aborted, pendingStops>>

\* TelegramBase.handleIncomingMessage, text other than "stop"
UserMessage(ch, item) ==
  /\ Budget("nUser", MaxUser)
  /\ LET s0 == Count([Snap EXCEPT !.hist.burst = FALSE], "nUser")
     IN IF isRunning(ch)
        THEN Commit(Post(s0, ch, "_Already working_"))
        ELSE Commit(EnqueueWork(s0, ch, item))
  /\ UNCHANGED <<stopMessageTs, aborted, pendingStops>>

\* EmailWebhookAdapter.processEmail: while a run is active the mail is handed
\* to enqueueEvent, which returns false; otherwise handleEvent is called
EmailMessage(ch) ==
  /\ Budget("nUser", MaxUser)
  /\ LET s0 == Count([Snap EXCEPT !.hist.burst = FALSE], "nUser")
     IN IF isRunning(ch)
        THEN Commit(s0)
        ELSE Commit(HandleEventEntry(s0, ch, "msg", FALSE))
  /\ UNCHANGED <<stopMessageTs, aborted, pendingStops>>

\* WebAdapter.processMessage: while a run is active the writer gets an error
\* and is closed; otherwise handleEvent is called
WebMessage(ch) ==
  /\ Budget("nUser", MaxUser)
  /\ LET s0 == Count([Snap EXCEPT !.hist.burst = FALSE], "nUser")
     IN IF isRunning(ch)
        THEN Commit(Post(s0, ch, "Already processing a message, say stop to cancel"))
        ELSE Commit(HandleEventEntry(s0, ch, "msg", FALSE))
  /\ UNCHANGED <<stopMessageTs, aborted, pendingStops>>

\* mutant: the test is "if (state)" instead of "if (state?.running)"
HandleStopAnyState(ch) ==
  IF ch \in channelStates
  THEN /\ stopRequested' = [stopRequested EXCEPT ![ch] = TRUE]
       /\ aborted' = [aborted EXCEPT ![ch] = TRUE]
       /\ pendingStops' = [pendingStops EXCEPT ![ch] = @ + 1]
       /\ UNCHANGED <<channelStates, running, stopMessageTs, queues, processing,
                      calls, notices>>
  ELSE /\ notices' = [notices EXCEPT ![ch] = Append(@, "_Nothing running_")]
       /\ UNCHANGED <<channelStates, running, stopRequested, stopMessageTs, aborted,
                      queues, processing, calls, pendingStops>>

\* handler.handleStop
HandleStop(ch) ==
  IF ch \in channelStates /\ running[ch]
  THEN /\ stopRequested' = [stopRequested EXCEPT ![ch] = TRUE]
       /\ aborted' = [aborted EXCEPT ![ch] = TRUE]
       /\ pendingStops' = [pendingStops EXCEPT ![ch] = @ + 1]
       /\ UNCHANGED <<channelStates, running, stopMessageTs, queues, processing,
                      calls, notices>>
  ELSE /\ notices' = [notices EXCEPT ![ch] = Append(@, "_Nothing running_")]
       /\ UNCHANGED <<channelStates, running, stopRequested, stopMessageTs, aborted,
                      queues, processing, calls, pendingStops>>

\* TelegramBase.handleIncomingMessage, text "stop"
UserStop(ch) ==
  /\ Budget("nStop", MaxStops)
  /\ hist' = [hist EXCEPT !.nStop = @ + 1, !.burst = FALSE]
  /\ IF isRunning(ch)
     THEN HandleStop(ch)
     ELSE /\ notices' = [notices EXCEPT ![ch] = Append(@, "_Nothing running_")]
          /\ UNCHANGED <<channelStates, running, stopRequested, stopMessageTs,
                         aborted, queues, processing, calls, pendingStops>>

\* handler.handleStop called through the MomHandler interface in any state
RequestStop(ch) ==
  /\ Budget("nStop", MaxStops)
  /\ hist' = [hist EXCEPT !.nStop = @ + 1, !.burst = FALSE]
  /\ HandleStop(ch)

\* the post of "_Stopping..._" resolves: state.stopMessageTs = ts
StopPostDone(ch) ==
  /\ pendingStops[ch] > 0
  /\ pendingStops' = [pendingStops EXCEPT ![ch] = @ - 1]
  /\ notices' = [notices EXCEPT ![ch] = Append(@, "_Stopping..._")]
  /\ stopMessageTs' = [stopMessageTs EXCEPT ![ch] = Len(notices[ch]) + 1]
  /\ UNCHANGED <<channelStates, running, stopRequested, aborted, queues, processing,
                 calls, hist>>

\* TelegramBase.enqueueEvent called by the events watcher
TelegramEnqueueEvent(ch, max) ==
  /\ Budget("evAttempts", max)
  /\ LET acc == EnqueueEventAccepts(Snap, ch)
         open == hist.burst /\ hist.evDone = 0
         s0 == [Snap EXCEPT !.hist.evAttempts = @ + 1,
                            !.hist.evAccepted = IF acc THEN @ + 1 ELSE @,
                            !.hist.burst = open,
                            !.hist.burstN = IF open THEN @ + 1 ELSE @,
                            !.hist.burstRejected = IF open /\ ~acc THEN @ + 1 ELSE @]
     IN Commit(EnqueueEvent(s0, ch))
  /\ UNCHANGED <<stopMessageTs, aborted, pendingStops>>

\* HeartbeatAdapter.enqueueEvent: handleEvent is called at once, unqueued
HeartbeatEnqueueEvent(ch) ==
  /\ Budget("nBeat", MaxBeats)
  /\ IF ch # HEARTBEAT_CHANNEL
     THEN Commit(Count(Snap, "nBeat"))
     ELSE Commit(HandleEventEntry(Count(Snap, "nBeat"), ch, "event", FALSE))
  /\ UNCHANGED <<stopMessageTs, aborted, pendingStops>>

----------------------------------------------------------------------------
(* Steps of a handleEvent invocation, one per awaited call *)

\* await handleSlashCommand(...) returns true: return
SlashDone(ch, i) ==
  /\ calls[ch][i].pc = "slash"
  /\ Commit(Settle(Post(Snap, ch, "model"), ch, i))
  /\ UNCHANGED <<stopMessageTs, aborted, pendingStops>>

\* await handleSlashCommand(...) rejects (the post of its answer failed):
\* handleEvent rejects before its try block
SlashThrows(ch, i) ==
  /\ calls[ch][i].pc = "slash"
  /\ Budget("nThrow", MaxThrows)
  /\ Commit(SettleRejected(Count(Snap, "nThrow"), ch, i))
  /\ UNCHANGED <<stopMessageTs, aborted, pendingStops>>

\* await ctx.setTyping(true)
SetTypingDone(ch, i) ==
  /\ calls[ch][i].pc = "typing"
  /\ Commit(SetPc(Snap, ch, i, "working"))
  /\ UNCHANGED <<stopMessageTs, aborted, pendingStops>>

\* await ctx.setWorking(true); runner.run starts
SetWorkingDone(ch, i) ==
  /\ calls[ch][i].pc = "working"
  /\ Commit(SetPc(Snap, ch, i, "agent"))
  /\ aborted' = [aborted EXCEPT ![ch] = FALSE]
  /\ UNCHANGED <<stopMessageTs, pendingStops>>

\* the outcomes runner.run can report
RunOutcomes(ch) == IF aborted[ch] THEN {"stop", "aborted"} ELSE {"stop"}

\* await state.runner.run(ctx, state.store)
AgentDone(ch, i) ==
  /\ calls[ch][i].pc = "agent"
  /\ \E r \in RunOutcomes(ch) :
        Commit([Snap EXCEPT !.calls[ch][i].pc = "finalize", !.calls[ch][i].result = r])
  /\ UNCHANGED <<stopMessageTs, aborted, pendingStops>>

\* await ctx.setWorking(false), then the stop finalization is chosen and its
\* platform call is made with the handle recorded at that moment
FinalizeDone(ch, i) ==
  /\ calls[ch][i].pc = "finalize"
  /\ IF calls[ch][i].result = "aborted" /\ stopRequested[ch]
     THEN IF stopMessageTs[ch] # 0
          THEN Commit([Snap EXCEPT !.calls[ch][i].pc = "markEdit",
                                   !.calls[ch][i].ts = stopMessageTs[ch]])
          ELSE Commit(SetPc(Snap, ch, i, "markPost"))
     ELSE Commit(Finally(Snap, ch, i))
  /\ UNCHANGED <<stopMessageTs, aborted, pendingStops>>

\* await platform.updateMessage(channel, state.stopMessageTs, "_Stopped_");
\* state.stopMessageTs = undefined
MarkEditDone(ch, i) ==
  /\ calls[ch][i].pc = "markEdit"
  /\ Commit(Finally([Snap EXCEPT !.notices[ch][calls[ch][i].ts] = "_Stopped_"], ch, i))
  /\ stopMessageTs' = [stopMessageTs EXCEPT ![ch] = 0]
  /\ UNCHANGED <<aborted, pendingStops>>

\* await platform.postMessage(channel, "_Stopped_")
MarkPostDone(ch, i) ==
  /\ calls[ch][i].pc = "markPost"
  /\ Commit(Finally(Post(Snap, ch, "_Stopped_"), ch, i))
  /\ UNCHANGED <<stopMessageTs, aborted, pendingStops>>

\* an awaited call inside the try block rejects: catch, finally
RunThrows(ch, i) ==
  /\ calls[ch][i].pc \in {"typing", "working", "agent", "finalize", "markEdit", "markPost"}
  /\ Budget("nThrow", MaxThrows)
  /\ Commit(Finally(Count(Snap, "nThrow"), ch, i))
  /\ UNCHANGED <<stopMessageTs, aborted, pendingStops>>

----------------------------------------------------------------------------
(* TelegramBase.createContext: the rendering context of one run              *)

EDIT_THROTTLE_MS == 300
STREAM_THROTTLE_MS == 800
STREAM_MIN_CHARS == 30
STREAM_MAX_CHARS == 3900
DISPLAY_MAX_CHARS == 4000
TickMs == 100         \* the step of the model's clock

MaxInstr == 3         \* context calls of a run (SpecRender)
MaxOrderInstr == 4    \* context calls of a run (SpecOrder)
MaxStreamInstr == 3   \* context calls of a run (SpecStream)
MaxUploadInstr == 3   \* context calls of a run (SpecUpload)
MaxFail == 1          \* platform posts/edits that fail
MaxExtDelete == 1     \* messages removed by somebody else

Null == 0
NoText == "<null>"
NoTimer == [left |-> -1, by |-> 0]
\* no sendDocument call in flight; overtook records that the call began while
\* a platform call of the updatePromise chain was in flight
NoUpload == [by |-> 0, overtook |-> FALSE]
NoOp == [op |-> "none", id |-> 0, text |-> [type |-> "none"], role |-> "none", site |-> "none"]

\* string lengths of the texts of the model
StrLen(t) ==
  CASE t = "" -> 0
    [] t = "fetching" -> 8
    [] t = "done" -> 4
    [] t = "interim" -> 7
    [] t = "hi" -> 2
    [] t = "final answer" -> 12
    [] t = "a partial answer, thirty chars+" -> 31
    [] t = "a partial answer, thirty chars+ and more" -> 40
    [] t = "an overlong answer" -> 3901
    [] OTHER -> 10

\* !text.trim()
Blank(t) == t = ""

\* markdownToTelegramHtml(text) as sent to the chat
Text(t) == [type |-> "text", t |-> t]

\* the calls of MomContext
Typing(on) == [k |-> "typing", on |-> on, shouldLog |-> FALSE, prefix |-> "", t |-> ""]
Working(on) == [k |-> "working", on |-> on, shouldLog |-> FALSE, prefix |-> "", t |-> ""]
Respond(prefix, t, shouldLog) ==
  [k |-> "respond", on |-> FALSE, shouldLog |-> shouldLog, prefix |-> prefix, t |-> t]
Label(t) == Respond("_->", t, FALSE)
Status(t) == Respond("", t, FALSE)
Stream(t) == Respond("__STREAM__", t, FALSE)
Content(t) == Respond("", t, TRUE)
Replace(t) == [k |-> "replace", on |-> FALSE, shouldLog |-> FALSE, prefix |-> "", t |-> t]
Delete == [k |-> "delete", on |-> FALSE, shouldLog |-> FALSE, prefix |-> "", t |-> ""]
Upload == [k |-> "upload", on |-> FALSE, shouldLog |-> FALSE, prefix |-> "", t |-> "report.pdf"]
Finalize == Working(FALSE)

\* a link of the updatePromise chain: a call's body, or a chained flush
Thunk(instr, n) ==
  [k |-> instr.k, on |-> instr.on, shouldLog |-> instr.shouldLog,
   prefix |-> instr.prefix, t |-> instr.t, n |-> n, pc |-> "start"]
FlushThunk(kind, by) ==
  [k |-> kind, on |-> FALSE, shouldLog |-> FALSE, prefix |-> "", t |-> "", n |-> by,
   pc |-> "start"]
IsFlush(th) == th.k \in {"flushW", "flushS"}

----------------------------------------------------------------------------
(* buildWorkingDisplay *)

EntryLen(e) == IF e.kind = "label" THEN StrLen(e.t) + 9 ELSE StrLen(e.t)

RECURSIVE SumLen(_)
SumLen(es) == IF es = <<>> THEN 0 ELSE EntryLen(Head(es)) + 1 + SumLen(Tail(es))

HeaderLen(h) == IF h = "" THEN 0 ELSE 16

\* the entries left after "trim oldest entries if needed"
RECURSIVE Trimmed(_, _, _)
Trimmed(h, es, cut) ==
  IF HeaderLen(h) + SumLen(es) + (IF cut THEN 17 ELSE 0) > DISPLAY_MAX_CHARS /\ Len(es) > 1
  THEN Trimmed(h, Tail(es), TRUE)
  ELSE es

BuildWorkingDisplay(c) ==
  LET es == Trimmed(c.headerLine, c.workingEntries, FALSE)
  IN [type |-> "display", header |-> c.headerLine, entries |-> es,
      trimmed |-> (Len(es) < Len(c.workingEntries)), spinner |-> c.isWorking]

----------------------------------------------------------------------------
(* The bodies chained on updatePromise.  Step(c, th) runs thunk th from       *)
(* th.pc to its next platform call, or to its end.                           *)

Out(c, th, op, done) == [c |-> c, th |-> th, op |-> op, done |-> done]
End(c, th) == Out(c, th, NoOp, TRUE)
At(th, pc) == [th EXCEPT !.pc = pc]

\* flushWorkingMessage, up to its platform call
CallFlush(c, th, next) ==
  LET d == BuildWorkingDisplay(c)
      c1 == [c EXCEPT !.workingEntries = d.entries]
  IN Out(c1, At(th, next),
         IF c.workingMessageId # Null
         THEN [op |-> "edit", id |-> c.workingMessageId, text |-> d, role |-> "status",
               site |-> "flush"]
         ELSE [op |-> "post", id |-> 0, text |-> d, role |-> "status", site |-> "flush"],
         FALSE)

DeleteCall(c, th, id, site, next) ==
  Out(c, At(th, next),
      [op |-> "delete", id |-> id, text |-> [type |-> "none"], role |-> "none",
       site |-> site], FALSE)

\* scheduleStreamUpdate
ScheduleStreamUpdate(c, by) ==
  IF c.streamStopped THEN c
  ELSE IF c.sinceStream >= STREAM_THROTTLE_MS
       THEN [c EXCEPT !.streamEditTimer = NoTimer,
                      !.chain = Append(@, FlushThunk("flushS", by))]
       ELSE IF c.streamEditTimer = NoTimer
            THEN [c EXCEPT !.streamEditTimer =
                     [left |-> STREAM_THROTTLE_MS - c.sinceStream, by |-> by]]
            ELSE c

ClearTimers(c) == [c EXCEPT !.editTimer = NoTimer, !.streamEditTimer = NoTimer]

RECURSIVE Step(_, _)

\* scheduleWorkingUpdate, continuing at next
ScheduleWorkingUpdate(c, th, next) ==
  IF c.sinceEdit >= EDIT_THROTTLE_MS
  THEN CallFlush([c EXCEPT !.editTimer = NoTimer], th, next)
  ELSE Step([c EXCEPT !.editDirty = TRUE,
                      !.editTimer = IF @ = NoTimer
                                    THEN [left |-> EDIT_THROTTLE_MS - c.sinceEdit, by |-> th.n]
                                    ELSE @],
            At(th, next))

\* flushPendingText, continuing at next
FlushPendingText(c, th, next) ==
  IF c.pendingText # NoText
  THEN ScheduleWorkingUpdate(
         [c EXCEPT !.workingEntries = Append(@, [kind |-> "text", t |-> c.pendingText]),
                   !.pendingText = NoText], th, next)
  ELSE Step(c, At(th, next))

RespondStep(c, th) ==
  CASE th.pc = "start" /\ ~th.shouldLog /\ th.prefix = "__STREAM__" ->
         IF c.streamStopped THEN End(c, th)
         ELSE LET c1 == [c EXCEPT !.streamText = th.t]
              IN IF StrLen(th.t) > STREAM_MAX_CHARS
                 THEN End([c1 EXCEPT !.streamStopped = TRUE], th)
                 ELSE IF StrLen(th.t) >= STREAM_MIN_CHARS
                      THEN IF c1.workingMessageId # Null /\ c1.workingEntries = <<>>
                           THEN DeleteCall(c1, th, c1.workingMessageId, "delW", "stream2")
                           ELSE Step(c1, At(th, "stream2"))
                      ELSE End(c1, th)
    [] th.pc = "stream2" -> End(ScheduleStreamUpdate(c, th.n), th)
    [] th.pc = "start" /\ ~th.shouldLog /\ th.prefix = "_->" ->
         FlushPendingText(c, th, "label2")
    [] th.pc = "label2" ->
         ScheduleWorkingUpdate(
           [c EXCEPT !.headerLine = IF @ = "Thinking" THEN "" ELSE @,
                     !.workingEntries = Append(@, [kind |-> "label", t |-> th.t])],
           th, "end")
    [] th.pc = "start" /\ ~th.shouldLog -> FlushPendingText(c, th, "status2")
    [] th.pc = "status2" -> ScheduleWorkingUpdate(c, th, "end")
    [] th.pc = "start" /\ th.shouldLog ->
         IF ~Blank(th.t) THEN FlushPendingText(c, th, "content2") ELSE End(c, th)
    [] th.pc = "content2" -> End([c EXCEPT !.pendingText = th.t], th)
    [] OTHER -> End(c, th)

ReplaceStep(c, th) ==
  CASE th.pc = "start" ->
         IF Blank(th.t) THEN End(c, th)
         ELSE LET c1 == [c EXCEPT !.pendingText = NoText, !.streamEditTimer = NoTimer]
              IN IF c1.workingMessageId # Null
                 THEN CallFlush([c1 EXCEPT !.editTimer = NoTimer], th, "replace2")
                 ELSE Step(c1, At(th, "replace2"))
    [] th.pc = "replace2" ->
         IF c.streamMessageId # Null
         THEN Out(c, At(th, "end"),
                  [op |-> "edit", id |-> c.streamMessageId, text |-> Text(th.t),
                   role |-> "final", site |-> "repEdit"], FALSE)
         ELSE Out(c, At(th, "end"),
                  [op |-> "post", id |-> 0, text |-> Text(th.t), role |-> "final",
                   site |-> "repPost"], FALSE)
    [] OTHER -> End(c, th)

TypingStep(c, th) ==
  IF th.pc = "start" /\ c.workingMessageId = Null
  THEN CallFlush(c, th, "end")
  ELSE End(c, th)

\* setWorking without the final edit of the working message
SetWorkingStepNoFinalEdit(c, th) ==
  CASE th.pc = "start" ->
         LET c1 == [c EXCEPT !.isWorking = th.on]
         IN IF th.on THEN End(c1, th) ELSE FlushPendingText(c1, th, "fin2")
    [] th.pc = "fin2" ->
         LET c1 == ClearTimers(c)
         IN IF c1.workingEntries = <<>> /\ c1.workingMessageId # Null
            THEN DeleteCall(c1, th, c1.workingMessageId, "delW", "fin3")
            ELSE Step(c1, At(th, "fin3"))
    [] th.pc = "fin3" ->
         IF c.streamMessageId # Null /\ ~Blank(c.streamText) /\ ~c.streamStopped
         THEN Out(c, At(th, "end"),
                  [op |-> "edit", id |-> c.streamMessageId, text |-> Text(c.streamText),
                   role |-> "stream", site |-> "finS"], FALSE)
         ELSE End(c, th)
    [] OTHER -> End(c, th)

SetWorkingStep(c, th) ==
  CASE th.pc = "start" ->
         LET c1 == [c EXCEPT !.isWorking = th.on]
         IN IF th.on THEN End(c1, th) ELSE FlushPendingText(c1, th, "fin2")
    [] th.pc = "fin2" ->
         LET c1 == ClearTimers(c)
         IN IF c1.workingEntries = <<>> /\ c1.workingMessageId # Null
            THEN DeleteCall(c1, th, c1.workingMessageId, "delW", "fin3")
            ELSE IF c1.workingMessageId # Null
                 THEN CallFlush(c1, th, "fin3")
                 ELSE Step(c1, At(th, "fin3"))
    [] th.pc = "fin3" ->
         IF c.streamMessageId # Null /\ ~Blank(c.streamText) /\ ~c.streamStopped
         THEN Out(c, At(th, "end"),
                  [op |-> "edit", id |-> c.streamMessageId, text |-> Text(c.streamText),
                   role |-> "stream", site |-> "finS"], FALSE)
         ELSE End(c, th)
    [] OTHER -> End(c, th)

\* deleteMessage that leaves the final message
DeleteStepKeepsFinal(c, th) ==
  CASE th.pc = "start" ->
         LET c1 == ClearTimers(c)
         IN IF c1.workingMessageId # Null
            THEN DeleteCall(c1, th, c1.workingMessageId, "delW", "del2")
            ELSE Step(c1, At(th, "del2"))
    [] th.pc = "del2" ->
         IF c.streamMessageId # Null
         THEN DeleteCall(c, th, c.streamMessageId, "delS", "del3")
         ELSE Step(c, At(th, "del3"))
    [] OTHER -> End(c, th)

DeleteStep(c, th) ==
  CASE th.pc = "start" ->
         LET c1 == ClearTimers(c)
         IN IF c1.workingMessageId # Null
            THEN DeleteCall(c1, th, c1.workingMessageId, "delW", "del2")
            ELSE Step(c1, At(th, "del2"))
    [] th.pc = "del2" ->
         IF c.streamMessageId # Null
         THEN DeleteCall(c, th, c.streamMessageId, "delS", "del3")
         ELSE Step(c, At(th, "del3"))
    [] th.pc = "del3" ->
         IF c.finalMessageId # Null
         THEN DeleteCall(c, th, c.finalMessageId, "delF", "end")
         ELSE End(c, th)
    [] OTHER -> End(c, th)

\* flushStreamMessage that sends after streaming has stopped
FlushStreamStepIgnoresStop(c, th) ==
  IF th.pc = "start" /\ ~Blank(c.streamText)
  THEN Out(c, At(th, "end"),
           IF c.streamMessageId # Null
           THEN [op |-> "edit", id |-> c.streamMessageId, text |-> Text(c.streamText),
                 role |-> "stream", site |-> "sflush"]
           ELSE [op |-> "post", id |-> 0, text |-> Text(c.streamText), role |-> "stream",
                 site |-> "sflush"],
           FALSE)
  ELSE End(c, th)

\* flushStreamMessage
FlushStreamStep(c, th) ==
  IF th.pc = "start" /\ ~(Blank(c.streamText) \/ c.streamStopped)
  THEN Out(c, At(th, "end"),
           IF c.streamMessageId # Null
           THEN [op |-> "edit", id |-> c.streamMessageId, text |-> Text(c.streamText),
                 role |-> "stream", site |-> "sflush"]
           ELSE [op |-> "post", id |-> 0, text |-> Text(c.streamText), role |-> "stream",
                 site |-> "sflush"],
           FALSE)
  ELSE End(c, th)

FlushWorkingStep(c, th) ==
  IF th.pc = "start" THEN CallFlush(c, th, "end") ELSE End(c, th)

Step(c, th) ==
  CASE th.k = "respond" -> RespondStep(c, th)
    [] th.k = "replace" -> ReplaceStep(c, th)
    [] th.k = "typing" -> TypingStep(c, th)
    [] th.k = "working" -> SetWorkingStep(c, th)
    [] th.k = "delete" -> DeleteStep(c, th)
    [] th.k = "flushS" -> FlushStreamStep(c, th)
    [] th.k = "flushW" -> FlushWorkingStep(c, th)

----------------------------------------------------------------------------
(* The updatePromise chain, the platform calls, the timers                   *)

\* runs the chain from its head until a platform call is in flight or the
\* chain is empty
RECURSIVE Drive(_)
Drive(c) ==
  IF c.chain = <<>> THEN [c |-> c, op |-> NoOp]
  ELSE LET r == Step(c, Head(c.chain))
       IN IF r.done
          THEN Drive([r.c EXCEPT !.chain = Tail(@)])
          ELSE [c |-> [r.c EXCEPT !.chain = <<r.th>> \o Tail(@)], op |-> r.op]

\* updatePromise = updatePromise.then(thunk)
Chain(c, th) ==
  IF c.rejected
  THEN [c EXCEPT !.raised = IF IsFlush(th) THEN @ ELSE @ \cup {th.n}]
  ELSE [c EXCEPT !.chain = Append(@, th)]

\* a body threw: updatePromise is rejected, and so is every link behind it
Reject(c) ==
  [c EXCEPT !.rejected = TRUE,
            !.raised = @ \cup {c.chain[i].n : i \in {j \in DOMAIN c.chain : ~IsFlush(c.chain[j])}},
            !.chain = <<>>]

NotModified == "message is not modified"
OtherError == "other"

\* the chat after a platform call
Applied(ch, op, by, ok) ==
  LET id == IF op.op = "post" THEN (IF ok THEN Len(ch.msgs) + 1 ELSE 0) ELSE op.id
      msgs1 == CASE op.op = "post" /\ ok ->
                      Append(ch.msgs, [text |-> op.text, alive |-> TRUE, role |-> op.role])
                 [] op.op = "edit" /\ ok -> [ch.msgs EXCEPT ![op.id].text = op.text]
                 [] op.op = "delete" /\ ok -> [ch.msgs EXCEPT ![op.id].alive = FALSE]
                 [] OTHER -> ch.msgs
  IN [ch EXCEPT !.msgs = msgs1,
                !.ops = Append(@, [op |-> op.op, id |-> id, by |-> by, ok |-> ok]),
                !.inflight = NoOp]

\* the code after the await of a platform call; err is the message of the
\* error when the call failed; next is "go", "throw" or "fallback"
\* (replaceMessage's catch)
AfterCall(c, th, op, id, ok, err) ==
  CASE op.site = "flush" ->
         IF ok
         THEN [c |-> [c EXCEPT !.workingMessageId = IF op.op = "post" THEN id ELSE @,
                               !.sinceEdit = 0, !.editDirty = FALSE], next |-> "go"]
         ELSE [c |-> c, next |-> "throw"]
    [] op.site = "sflush" ->
         IF ok
         THEN [c |-> [c EXCEPT !.streamMessageId = IF op.op = "post" THEN id ELSE @,
                               !.sinceStream = 0], next |-> "go"]
         ELSE IF err # NotModified
              THEN [c |-> [c EXCEPT !.streamStopped = TRUE], next |-> "go"]
              ELSE [c |-> c, next |-> "go"]
    [] op.site = "delW" -> [c |-> [c EXCEPT !.workingMessageId = Null], next |-> "go"]
    [] op.site = "delS" -> [c |-> [c EXCEPT !.streamMessageId = Null], next |-> "go"]
    [] op.site = "delF" -> [c |-> [c EXCEPT !.finalMessageId = Null], next |-> "go"]
    [] op.site = "repEdit" ->
         IF ok
         THEN [c |-> [c EXCEPT !.finalMessageId = c.streamMessageId,
                               !.log = Append(@, [t |-> th.t, id |-> c.streamMessageId])],
               next |-> "go"]
         ELSE [c |-> c, next |-> "fallback"]
    [] op.site = "repPost" ->
         IF ok
         THEN [c |-> [c EXCEPT !.finalMessageId = id,
                               !.log = Append(@, [t |-> th.t, id |-> id])], next |-> "go"]
         ELSE [c |-> c, next |-> "throw"]
    [] OTHER -> [c |-> c, next |-> "go"]

\* what the platform can answer to a call
Outcomes(op) ==
  CASE op.op = "delete" -> {chat.msgs[op.id].alive}
    [] op.op = "edit" /\ ~chat.msgs[op.id].alive -> {FALSE}
    [] OTHER -> IF agent.failsLeft > 0 THEN {TRUE, FALSE} ELSE {TRUE}

\* the messages a failed call can carry: the platform refuses an edit that
\* changes nothing with "message is not modified"; only flushStreamMessage
\* reads the message
Errors(op, ok) ==
  IF ~ok /\ op.site = "sflush" /\ op.op = "edit" /\ chat.msgs[op.id].alive
         /\ chat.msgs[op.id].text = op.text
  THEN {NotModified, OtherError}
  ELSE {OtherError}

CtxInit ==
  [workingMessageId |-> Null, finalMessageId |-> Null, streamMessageId |-> Null,
   isWorking |-> TRUE, headerLine |-> "Thinking", workingEntries |-> <<>>,
   pendingText |-> NoText, sinceEdit |-> EDIT_THROTTLE_MS, editTimer |-> NoTimer,
   editDirty |-> FALSE, streamText |-> "", sinceStream |-> STREAM_THROTTLE_MS,
   streamEditTimer |-> NoTimer, streamStopped |-> FALSE,
   chain |-> <<>>, rejected |-> FALSE, raised |-> {}, log |-> <<>>]

\* a fresh context in a chat where f posts or edits can fail and e messages
\* can be removed by somebody else
RenderStart(f, e) ==
  /\ ctx = CtxInit
  /\ chat = [msgs |-> <<>>, ops |-> <<>>, inflight |-> NoOp, upload |-> NoUpload]
  /\ agent = [issued |-> <<>>, failsLeft |-> f, extLeft |-> e]

RenderInit == RenderStart(MaxFail, MaxExtDelete)

\* the agent awaits each call: no body of a call is on the chain
Awaiting ==
  \/ \E i \in DOMAIN ctx.chain : ~IsFlush(ctx.chain[i])
  \/ chat.upload # NoUpload

\* call n of the agent has returned or thrown
Settled(n) ==
  /\ n \in DOMAIN agent.issued
  /\ \A i \in DOMAIN ctx.chain : IsFlush(ctx.chain[i]) \/ ctx.chain[i].n # n

\* a link was added: it starts at once when the chain was idle
Started(c) ==
  IF chat.inflight = NoOp
  THEN LET d == Drive(c) IN ctx' = d.c /\ chat' = [chat EXCEPT !.inflight = d.op]
  ELSE ctx' = c /\ UNCHANGED chat

\* the agent calls a method of the context
Issue(instr, max) ==
  /\ ~Awaiting
  /\ Len(agent.issued) < max
  /\ agent' = [agent EXCEPT !.issued = Append(@, instr)]
  /\ LET n == Len(agent.issued) + 1
     IN IF instr.k = "typing" /\ ~(instr.on /\ ctx.workingMessageId = Null)
        THEN UNCHANGED <<ctx, chat>>
        ELSE Started(Chain(ctx, Thunk(instr, n)))

\* the agent calls uploadFile: this.uploadFile is awaited at once, not on
\* updatePromise
UploadFile(max) ==
  /\ ~Awaiting
  /\ Len(agent.issued) < max
  /\ agent' = [agent EXCEPT !.issued = Append(@, Upload)]
  /\ chat' = [chat EXCEPT !.upload = [by |-> Len(agent.issued) + 1,
                                      overtook |-> chat.inflight # NoOp]]
  /\ UNCHANGED ctx

\* bot.sendDocument returns or throws
UploadReturns ==
  /\ chat.upload # NoUpload
  /\ chat' = [chat EXCEPT !.upload = NoUpload]
  /\ UNCHANGED <<ctx, agent>>

\* bot.api.sendMessage / editMessageText / deleteMessage returns
CallReturns ==
  /\ chat.inflight # NoOp
  /\ \E ok \in Outcomes(chat.inflight) : \E err \in Errors(chat.inflight, ok) :
       LET op == chat.inflight
           th == Head(ctx.chain)
           ch1 == Applied(chat, op, th.n, ok)
           id == ch1.ops[Len(ch1.ops)].id
           a == AfterCall(ctx, th, op, id, ok, err)
       IN /\ agent' = [agent EXCEPT !.failsLeft = IF ~ok /\ FALSE \in Outcomes(op) /\
                                                      TRUE \in Outcomes(op)
                                                   THEN @ - 1 ELSE @]
          /\ CASE a.next = "throw" -> ctx' = Reject(a.c) /\ chat' = ch1
               [] a.next = "fallback" ->
                    /\ ctx' = a.c
                    /\ chat' = [ch1 EXCEPT !.inflight =
                                  [op |-> "post", id |-> 0, text |-> Text(th.t),
                                   role |-> "final", site |-> "repPost"]]
               [] OTHER -> LET d == Drive(a.c)
                           IN ctx' = d.c /\ chat' = [ch1 EXCEPT !.inflight = d.op]

\* the editTimer callback of scheduleWorkingUpdate
EditTimerFires ==
  /\ ctx.editTimer.left = 0
  /\ LET c1 == [ctx EXCEPT !.editTimer = NoTimer]
     IN IF ctx.editDirty
        THEN Started(Chain(c1, FlushThunk("flushW", ctx.editTimer.by)))
        ELSE ctx' = c1 /\ UNCHANGED chat
  /\ UNCHANGED agent

\* the streamEditTimer callback of scheduleStreamUpdate
StreamTimerFires ==
  /\ ctx.streamEditTimer.left = 0
  /\ Started(Chain([ctx EXCEPT !.streamEditTimer = NoTimer],
                   FlushThunk("flushS", ctx.streamEditTimer.by)))
  /\ UNCHANGED agent

\* Date.now() advances; a due timer fires first
Tick ==
  /\ ctx.editTimer.left # 0 /\ ctx.streamEditTimer.left # 0
  /\ \/ ctx.sinceEdit < EDIT_THROTTLE_MS
     \/ ctx.sinceStream < STREAM_THROTTLE_MS
  /\ ctx' = [ctx EXCEPT
       !.sinceEdit = Min(@ + TickMs, EDIT_THROTTLE_MS),
       !.sinceStream = Min(@ + TickMs, STREAM_THROTTLE_MS),
       !.editTimer = IF @ = NoTimer THEN @ ELSE [@ EXCEPT !.left = Max(@ - TickMs, 0)],
       !.streamEditTimer = IF @ = NoTimer THEN @ ELSE [@ EXCEPT !.left = Max(@ - TickMs, 0)]]
  /\ UNCHANGED <<chat, agent>>

\* somebody else removes a message of the chat
ExternalDelete ==
  /\ agent.extLeft > 0
  /\ \E id \in DOMAIN chat.msgs :
       /\ chat.msgs[id].alive
       /\ chat' = [chat EXCEPT !.msgs[id].alive = FALSE]
  /\ agent' = [agent EXCEPT !.extLeft = @ - 1]
  /\ UNCHANGED ctx

Alphabet ==
  {Typing(TRUE), Label("fetching"), Status("hi"), Content("interim"),
   Stream("a partial answer, thirty chars+"), Replace("final answer"), Delete, Finalize}

\* handleEvent's calls around a run that reports two tool labels and an answer
ScenarioA ==
  <<Typing(TRUE), Working(TRUE), Label("fetching"), Label("done"),
    Replace("final answer"), Finalize>>

----------------------------------------------------------------------------
(* Gateway: one HTTP server with path-based routing                          *)

MaxRequests == 2      \* requests sent to the gateway

Paths == {"/telegram/webhook", "/slack/events"}
Urls == Paths \cup {"/health"}
Methods == {"GET", "POST", "PUT"}
NoHandler == "none"
HandlerOf(path) == IF path = "/telegram/webhook" THEN "telegram.dispatch" ELSE "slack.dispatch"

\* what a route handler does with a request: the status it writes, or throws
HandlerOutcomes == {200, 401, -1}

\* the Gateway object of a process that has just begun
FreshGateway == [routes |-> [p \in Urls |-> NoHandler], readyRoutes |-> {}, server |-> FALSE]

GatewayInit ==
  /\ gateway = FreshGateway
  /\ http = <<>>

\* register(path, handler)
Register(path) ==
  /\ gateway' = [gateway EXCEPT !.routes[path] = HandlerOf(path)]
  /\ UNCHANGED http

\* markReady(path)
MarkReady(path) ==
  /\ gateway' = [gateway EXCEPT !.readyRoutes = @ \cup {path}]
  /\ UNCHANGED http

\* start(port)
Start ==
  /\ ~gateway.server
  /\ gateway' = [gateway EXCEPT !.server = TRUE]
  /\ UNCHANGED http

\* stop()
Stop ==
  /\ gateway.server
  /\ gateway' = [gateway EXCEPT !.server = FALSE]
  /\ UNCHANGED http

Answer(status, handler) == [status |-> status, handler |-> handler]

\* the request listener of createServer without the test of readyRoutes
DispatchIgnoresReady(g, method, url, outcome) ==
  IF method = "GET" /\ url = "/health" THEN Answer(200, NoHandler)
  ELSE IF method # "POST" THEN Answer(405, NoHandler)
  ELSE IF g.routes[url] = NoHandler THEN Answer(404, NoHandler)
  ELSE Answer(outcome, g.routes[url])

\* the request listener of createServer with the method test before the
\* health check
DispatchHealthAfterMethod(g, method, url, outcome) ==
  IF method # "POST" THEN Answer(405, NoHandler)
  ELSE IF g.routes[url] = NoHandler THEN Answer(404, NoHandler)
  ELSE IF url \notin g.readyRoutes THEN Answer(503, NoHandler)
  ELSE Answer(outcome, g.routes[url])

\* the request listener of createServer with the route lookup before the
\* method test
DispatchLooksUpFirst(g, method, url, outcome) ==
  IF method = "GET" /\ url = "/health" THEN Answer(200, NoHandler)
  ELSE IF g.routes[url] = NoHandler THEN Answer(404, NoHandler)
  ELSE IF method # "POST" THEN Answer(405, NoHandler)
  ELSE IF url \notin g.readyRoutes THEN Answer(503, NoHandler)
  ELSE Answer(outcome, g.routes[url])

\* the request listener of createServer
Dispatch(g, method, url, outcome) ==
  IF method = "GET" /\ url = "/health" THEN Answer(200, NoHandler)
  ELSE IF method # "POST" THEN Answer(405, NoHandler)
  ELSE IF g.routes[url] = NoHandler THEN Answer(404, NoHandler)
  ELSE IF url \notin g.readyRoutes THEN Answer(503, NoHandler)
  ELSE Answer(outcome, g.routes[url])

\* the handler threw: nothing in the listener catches
Throws(a) == a.handler # NoHandler /\ a.status = -1

\* a client sends a request to the listening server; an exception that leaves
\* the listener is an uncaught exception of the process, which ends it unless
\* something outside this code handles the exception
Request(method, url) ==
  /\ gateway.server
  /\ Len(http) < MaxRequests
  /\ \E outcome \in HandlerOutcomes :
       LET a == Dispatch(gateway, method, url, outcome)
       IN /\ a.handler = NoHandler => outcome = 200
          /\ http' = Append(http, [method |-> method, url |-> url, status |-> a.status,
                                   handler |-> a.handler,
                                   registered |-> gateway.routes[url] # NoHandler,
                                   ready |-> url \in gateway.readyRoutes,
                                   escaped |-> Throws(a)])
          /\ IF Throws(a)
             THEN gateway' \in {gateway, FreshGateway}
             ELSE UNCHANGED gateway

----------------------------------------------------------------------------
(* tools/send-message.ts: the cross-channel send_message tool                *)

MaxSends == 2         \* invocations of execute

\* channel ids, character by character
ChannelIds ==
  {<<"1", "2">>, <<"-", "7">>, <<"-">>, <<>>, <<"1", "a">>, <<"C", "1">>, <<"D">>,
   <<"G", "e">>, <<"c", "1">>, <<"e", "m", "a", "i", "l", "-", "a">>,
   <<"e", "m", "a", "i", "l">>, <<"-", "C">>}

Digits == {"0", "1", "2", "3", "4", "5", "6", "7", "8", "9"}

AllDigits(s) == s # <<>> /\ \A i \in DOMAIN s : s[i] \in Digits

\* /^\d+$/.test(channel)
MatchesDigits(s) == AllDigits(s)

\* /^-?\d+$/.test(channel)
MatchesNumeric(s) == IF s # <<>> /\ Head(s) = "-" THEN AllDigits(Tail(s)) ELSE AllDigits(s)

\* /^[CDG]/.test(channel)
MatchesSlack(s) == s # <<>> /\ Head(s) \in {"C", "D", "G"}

\* channel.startsWith("email-")
MatchesEmail(s) == Len(s) >= 6 /\ SubSeq(s, 1, 6) = <<"e", "m", "a", "i", "l", "-">>

Undefined == "undefined"

\* adapters.find((a) => a.name === name)
Find(adapters, name) ==
  IF \E i \in DOMAIN adapters : adapters[i] = name THEN name ELSE Undefined

\* resolveAdapter whose numeric rule has no optional minus
ResolveAdapterNoMinus(channel, adapters) ==
  IF MatchesDigits(channel) THEN Find(adapters, "telegram")
  ELSE IF MatchesSlack(channel) THEN Find(adapters, "slack")
  ELSE IF MatchesEmail(channel) THEN Find(adapters, "email")
  ELSE Undefined

resolveAdapter(channel, adapters) ==
  IF MatchesNumeric(channel) THEN Find(adapters, "telegram")
  ELSE IF MatchesSlack(channel) THEN Find(adapters, "slack")
  ELSE IF MatchesEmail(channel) THEN Find(adapters, "email")
  ELSE Undefined

\* the adapter lists a process can be started with
AdapterLists ==
  {<<>>, <<"telegram">>, <<"slack">>, <<"slack", "email">>, <<"web", "telegram">>,
   <<"telegram", "slack", "email">>}

Returned(kind, adapter, channel, ts, nAtt) ==
  [kind |-> kind, adapter |-> adapter, channel |-> channel, ts |-> ts, nAtt |-> nAtt]

\* execute without its try/catch
ExecuteNoCatch(s, channel, text, nAtt, signalAborted, postOk) ==
  IF signalAborted THEN [s |-> s, out |-> Returned("throw", Undefined, channel, 0, 0)]
  ELSE LET adapter == resolveAdapter(channel, s.adapters)
       IN IF adapter = Undefined
          THEN [s |-> s, out |-> Returned("no adapter", Undefined, channel, 0, 0)]
          ELSE IF postOk
               THEN LET ts == Len(s.sent) + 1
                    IN [s |-> [s EXCEPT !.sent = Append(@, [adapter |-> adapter,
                                                            channel |-> channel, text |-> text]),
                                        !.logged = Append(@, [channel |-> channel, ts |-> ts])],
                        out |-> Returned("sent", adapter, channel, ts, nAtt)]
               ELSE [s |-> s, out |-> Returned("throw", adapter, channel, 0, 0)]

\* execute: what it leaves of the tool state and what it gives its caller
Execute(s, channel, text, nAtt, signalAborted, postOk) ==
  IF signalAborted THEN [s |-> s, out |-> Returned("throw", Undefined, channel, 0, 0)]
  ELSE LET adapter == resolveAdapter(channel, s.adapters)
       IN IF adapter = Undefined
          THEN [s |-> s, out |-> Returned("no adapter", Undefined, channel, 0, 0)]
          ELSE IF postOk
               THEN LET ts == Len(s.sent) + 1
                    IN [s |-> [s EXCEPT !.sent = Append(@, [adapter |-> adapter,
                                                            channel |-> channel, text |-> text]),
                                        !.logged = Append(@, [channel |-> channel, ts |-> ts])],
                        out |-> Returned("sent", adapter, channel, ts, nAtt)]
               ELSE [s |-> s, out |-> Returned("failed", adapter, channel, 0, 0)]

ToolInit ==
  sender = [adapters |-> <<>>, sent |-> <<>>, logged |-> <<>>, calls |-> <<>>]

\* createSendMessageTool(adapters)
ToolStart ==
  \E as \in AdapterLists :
     sender = [adapters |-> as, sent |-> <<>>, logged |-> <<>>, calls |-> <<>>]

\* the agent invokes send_message
SendMessage(channel, nAtt, signalAborted, postOk) ==
  /\ Len(sender.calls) < MaxSends
  /\ LET r == Execute(sender, channel, "hello", nAtt, signalAborted, postOk)
     IN sender' = [r.s EXCEPT !.calls = Append(@, [aborted |-> signalAborted, postOk |-> postOk,
                                                   out |-> r.out])]

----------------------------------------------------------------------------
(* main: the gateway starts, then each adapter registers its route, starts  *)
(* and is marked ready                                                       *)

MaxAdapters == 3      \* adapters on the command line

AdapterNames == {"slack:webhook", "telegram:webhook", "slack:socket"}
NoPath == "none"

\* DISPATCH_PATHS[adapterName]
DISPATCH_PATHS(name) ==
  IF name = "slack:webhook" THEN "/slack/events"
  ELSE IF name = "telegram:webhook" THEN "/telegram/webhook"
  ELSE NoPath

\* adapter.dispatch is defined: the webhook adapters
HasDispatch(name) == name \in {"slack:webhook", "telegram:webhook"}

\* parsedArgs.adapters: each adapter named once
AdapterArgs ==
  {as \in UNION {[1..n -> AdapterNames] : n \in 1..MaxAdapters} :
     \A j, k \in DOMAIN as : as[j] = as[k] => j = k}

BootOf(as) == [adapters |-> as, i |-> 1, pc |-> "gateway", started |-> {}, failed |-> {}]

\* main has not begun
MainIdle == boot = BootOf(<<>>)

MainInit == \E as \in AdapterArgs : boot = BootOf(as)

\* await gateway.start(parsedArgs.port)
MainGatewayStart ==
  /\ boot.pc = "gateway"
  /\ Start
  /\ boot' = [boot EXCEPT !.pc = "loop"]

\* one iteration of the loop up to `await adapter.start()`
MainRegister ==
  /\ boot.pc = "loop"
  /\ LET name == boot.adapters[boot.i]
         path == DISPATCH_PATHS(name)
     IN IF path # NoPath /\ HasDispatch(name) THEN Register(path) ELSE UNCHANGED gatewayVars
  /\ boot' = [boot EXCEPT !.pc = "starting"]

\* i++ and the loop test
Advance(b) ==
  [b EXCEPT !.i = @ + 1, !.pc = IF b.i + 1 > Len(b.adapters) THEN "done" ELSE "loop"]

\* adapter.start() resolves: markReady(path)
MainStartResolves ==
  /\ boot.pc = "starting"
  /\ LET name == boot.adapters[boot.i]
         path == DISPATCH_PATHS(name)
     IN /\ IF path # NoPath THEN MarkReady(path) ELSE UNCHANGED gatewayVars
        /\ boot' = [Advance(boot) EXCEPT !.started = @ \cup {name}]

\* adapter.start() rejects and nothing catches: the loop ends
MainStartFailsEndsLoop ==
  /\ boot.pc = "starting"
  /\ boot' = [boot EXCEPT !.failed = @ \cup {boot.adapters[boot.i]}, !.pc = "done"]
  /\ UNCHANGED gatewayVars

\* adapter.start() rejects: the catch logs a warning and the loop goes on
MainStartFails ==
  /\ boot.pc = "starting"
  /\ boot' = [Advance(boot) EXCEPT !.failed = @ \cup {boot.adapters[boot.i]}]
  /\ UNCHANGED gatewayVars

\* a request whose handler, if one runs, answers
MainRequest(method, url) ==
  /\ Request(method, url)
  /\ ~http'[Len(http')].escaped
  /\ UNCHANGED boot

HookInit == webhook = <<>>

----------------------------------------------------------------------------
(* The webhook adapters: dispatch(req, res) of Telegram, Slack and email     *)

MaxHooks == 2         \* requests handed to the adapters

ReplayWindow == 300   \* seconds
Now == 1000           \* Math.floor(Date.now() / 1000)

\* request bodies, and the header values a client may send ("" is no header)
Bodies == {"garbage", "null", "{}", "{update}", "{url_verification}", "{event_callback}",
           "{bot event}", "{from}", "{body}", "{from,body}"}
Tokens == {"", "guess", "secret"}
Timestamps == {"", "995", "699", "1301", "soon"}
Signatures == {"", "v0=valid", "v0=forged", "v0"}

NoPayload == [ok |-> FALSE, null |-> FALSE, type |-> "", event |-> "", from |-> FALSE, body |-> FALSE]
Payload(type, event, from, body) ==
  [ok |-> TRUE, null |-> FALSE, type |-> type, event |-> event, from |-> from, body |-> body]

\* JSON.parse(body); ok is false when it throws
JSONParse(body) ==
  CASE body = "garbage" -> NoPayload
    [] body = "null" -> [NoPayload EXCEPT !.ok = TRUE, !.null = TRUE]
    [] body = "{}" -> Payload("", "", FALSE, FALSE)
    [] body = "{update}" -> Payload("", "", FALSE, FALSE)
    [] body = "{url_verification}" -> Payload("url_verification", "", FALSE, FALSE)
    [] body = "{event_callback}" -> Payload("event_callback", "user", FALSE, FALSE)
    [] body = "{bot event}" -> Payload("event_callback", "bot", FALSE, FALSE)
    [] body = "{from}" -> Payload("", "", TRUE, FALSE)
    [] body = "{body}" -> Payload("", "", FALSE, TRUE)
    [] OTHER -> Payload("", "", TRUE, TRUE)

\* parseInt(timestamp, 10)
ParseInt(t) ==
  CASE t = "995" -> [nan |-> FALSE, n |-> 995]
    [] t = "699" -> [nan |-> FALSE, n |-> 699]
    [] t = "1301" -> [nan |-> FALSE, n |-> 1301]
    [] OTHER -> [nan |-> TRUE, n |-> 0]

Abs(n) == IF n < 0 THEN 0 - n ELSE n

\* Math.abs(now - parseInt(timestamp, 10)) > 300; a comparison with NaN is false
TooOld(t) == LET v == ParseInt(t) IN ~v.nan /\ Abs(Now - v.n) > ReplayWindow

\* verifySignature: the HMAC of timestamp and body equals the header;
\* timingSafeEqual throws on a length mismatch, the catch returns false
verifySignature(timestamp, body, signature) == signature = "v0=valid"

\* what dispatch did: the status it wrote (-1: it threw and wrote none) and
\* the processing it passed the payload on to
Did(status, work) == [status |-> status, work |-> work]
NoWork == "none"

\* TelegramWebhookAdapter.dispatch
TelegramDispatch(token, body) ==
  IF token = "" \/ token # "secret" THEN Did(401, NoWork)
  ELSE IF ~JSONParse(body).ok THEN Did(400, NoWork)
  ELSE Did(200, "processUpdate")

\* SlackWebhookAdapter.dispatchEvent
dispatchEvent(payload) ==
  IF payload.null THEN Did(-1, NoWork)
  ELSE IF payload.type = "url_verification" THEN Did(200, NoWork)
  ELSE IF payload.type # "event_callback" \/ payload.event = "" THEN Did(200, NoWork)
  ELSE IF payload.event = "bot" THEN Did(200, NoWork)
  ELSE Did(200, "handleMessage")

\* SlackWebhookAdapter.dispatch
SlackDispatch(timestamp, signature, body) ==
  IF timestamp = "" \/ signature = "" THEN Did(401, NoWork)
  ELSE IF TooOld(timestamp) THEN Did(401, NoWork)
  ELSE IF ~verifySignature(timestamp, body, signature) THEN Did(401, NoWork)
  ELSE IF ~JSONParse(body).ok THEN Did(400, NoWork)
  ELSE dispatchEvent(JSONParse(body))

\* EmailWebhookAdapter.dispatch; reading a property of null throws
EmailDispatch(body) ==
  LET payload == JSONParse(body)
  IN IF ~payload.ok THEN Did(400, NoWork)
     ELSE IF payload.null THEN Did(-1, NoWork)
     ELSE IF ~payload.from \/ ~payload.body THEN Did(400, NoWork)
     ELSE Did(200, "processEmail")

Hooked(adapter, token, timestamp, signature, body, did) ==
  /\ Len(webhook) < MaxHooks
  /\ webhook' = Append(webhook, [adapter |-> adapter, token |-> token, timestamp |-> timestamp,
                                 signature |-> signature, body |-> body,
                                 status |-> did.status, work |-> did.work])

\* the gateway hands a request to the adapter of its route
TelegramWebhook(token, body) ==
  Hooked("telegram", token, "", "", body, TelegramDispatch(token, body))

SlackWebhook(timestamp, signature, body) ==
  Hooked("slack", "", timestamp, signature, body, SlackDispatch(timestamp, signature, body))

EmailWebhook(body) ==
  Hooked("email", "", "", "", body, EmailDispatch(body))

----------------------------------------------------------------------------
HistInit ==
  [nUser |-> 0, nStop |-> 0, nBeat |-> 0, nThrow |-> 0,
   evAttempts |-> 0, evAccepted |-> 0, evStarted |-> 0, evDone |-> 0,
   burst |-> TRUE, burstN |-> 0, burstRejected |-> 0,
   nReject |-> 0, behind |-> 0]

RunInit ==
  /\ channelStates = {}
  /\ running = [ch \in Chans |-> FALSE]
  /\ stopRequested = [ch \in Chans |-> FALSE]
  /\ stopMessageTs = [ch \in Chans |-> 0]
  /\ aborted = [ch \in Chans |-> FALSE]
  /\ queues = [ch \in Chans |-> <<>>]
  /\ processing = [ch \in Chans |-> FALSE]
  /\ calls = [ch \in Chans |-> <<>>]
  /\ pendingStops = [ch \in Chans |-> 0]
  /\ notices = [ch \in Chans |-> <<>>]
  /\ hist = HistInit

HandlerStep ==
  \E ch \in Chans : \E i \in 1..Len(calls[ch]) :
     \/ SlashDone(ch, i)
     \/ SetTypingDone(ch, i)
     \/ SetWorkingDone(ch, i)
     \/ AgentDone(ch, i)
     \/ FinalizeDone(ch, i)
     \/ MarkEditDone(ch, i)
     \/ MarkPostDone(ch, i)
     \/ RunThrows(ch, i)

\* without stop requests no run reaches the stop finalization
PlainHandlerStep ==
  \E ch \in Chans : \E i \in 1..Len(calls[ch]) :
     \/ SlashDone(ch, i)
     \/ SetTypingDone(ch, i)
     \/ SetWorkingDone(ch, i)
     \/ AgentDone(ch, i)
     \/ FinalizeDone(ch, i)
     \/ RunThrows(ch, i)

BeatHandlerStep ==
  \E i \in 1..Len(calls[HEARTBEAT_CHANNEL]) :
     \/ SetTypingDone(HEARTBEAT_CHANNEL, i)
     \/ SetWorkingDone(HEARTBEAT_CHANNEL, i)
     \/ AgentDone(HEARTBEAT_CHANNEL, i)
     \/ FinalizeDone(HEARTBEAT_CHANNEL, i)
     \/ RunThrows(HEARTBEAT_CHANNEL, i)

Init == RunInit /\ RenderInit /\ GatewayInit /\ ToolInit /\ MainIdle /\ HookInit

(* Spec: one Telegram chat with user messages, stop requests and events *)
Next ==
  \/ (\E item \in {"msg", "model"} : UserMessage(TgChan, item)) /\ UNCHANGED <<renderVars, gatewayVars, toolVars, mainVars, hookVars>>
  \/ UserStop(TgChan) /\ UNCHANGED <<renderVars, gatewayVars, toolVars, mainVars, hookVars>>
  \/ RequestStop(TgChan) /\ UNCHANGED <<renderVars, gatewayVars, toolVars, mainVars, hookVars>>
  \/ StopPostDone(TgChan) /\ UNCHANGED <<renderVars, gatewayVars, toolVars, mainVars, hookVars>>
  \/ (\E ch \in Chans : TelegramEnqueueEvent(ch, MaxEvents)) /\ UNCHANGED <<renderVars, gatewayVars, toolVars, mainVars, hookVars>>
  \/ HandlerStep /\ UNCHANGED <<renderVars, gatewayVars, toolVars, mainVars, hookVars>>

Spec == Init /\ [][Next]_vars

(* SpecQueue: a burst of events and user messages on one Telegram chat *)
NextQueue ==
  \/ (\E item \in {"msg", "model"} : UserMessage(TgChan, item)) /\ UNCHANGED <<renderVars, gatewayVars, toolVars, mainVars, hookVars>>
  \/ TelegramEnqueueEvent(TgChan, MaxBurst) /\ UNCHANGED <<renderVars, gatewayVars, toolVars, mainVars, hookVars>>
  \/ PlainHandlerStep /\ UNCHANGED <<renderVars, gatewayVars, toolVars, mainVars, hookVars>>

SpecQueue == Init /\ [][NextQueue]_vars

(* SpecBeat: heartbeat events offered to the heartbeat adapter *)
NextBeat ==
  \/ (\E ch \in Chans : HeartbeatEnqueueEvent(ch)) /\ UNCHANGED <<renderVars, gatewayVars, toolVars, mainVars, hookVars>>
  \/ BeatHandlerStep /\ UNCHANGED <<renderVars, gatewayVars, toolVars, mainVars, hookVars>>

SpecBeat == Init /\ [][NextBeat]_vars

(* SpecRender: one rendering context driven by any calls of the agent *)
NextRender ==
  \/ (\E instr \in Alphabet : Issue(instr, MaxInstr)) /\ UNCHANGED <<runVars, gatewayVars, toolVars, mainVars, hookVars>>
  \/ CallReturns /\ UNCHANGED <<runVars, gatewayVars, toolVars, mainVars, hookVars>>
  \/ EditTimerFires /\ UNCHANGED <<runVars, gatewayVars, toolVars, mainVars, hookVars>>
  \/ StreamTimerFires /\ UNCHANGED <<runVars, gatewayVars, toolVars, mainVars, hookVars>>
  \/ Tick /\ UNCHANGED <<runVars, gatewayVars, toolVars, mainVars, hookVars>>
  \/ ExternalDelete /\ UNCHANGED <<runVars, gatewayVars, toolVars, mainVars, hookVars>>

SpecRender == Init /\ [][NextRender]_vars

(* SpecScenarioA: the calls of ScenarioA at any pace, on a reliable platform *)
InitScenarioA == RunInit /\ RenderStart(0, 0) /\ GatewayInit /\ ToolInit /\ MainIdle /\ HookInit

NextScenarioA ==
  \/ /\ Len(agent.issued) < Len(ScenarioA)
     /\ Issue(ScenarioA[Len(agent.issued) + 1], Len(ScenarioA))
     /\ UNCHANGED <<runVars, gatewayVars, toolVars, mainVars, hookVars>>
  \/ CallReturns /\ UNCHANGED <<runVars, gatewayVars, toolVars, mainVars, hookVars>>
  \/ EditTimerFires /\ UNCHANGED <<runVars, gatewayVars, toolVars, mainVars, hookVars>>
  \/ Tick /\ UNCHANGED <<runVars, gatewayVars, toolVars, mainVars, hookVars>>

SpecScenarioA == InitScenarioA /\ [][NextScenarioA]_vars

(* SpecOrder: longer histories of calls on a reliable platform *)
NextOrder ==
  \/ (\E instr \in Alphabet : Issue(instr, MaxOrderInstr)) /\ UNCHANGED <<runVars, gatewayVars, toolVars, mainVars, hookVars>>
  \/ CallReturns /\ UNCHANGED <<runVars, gatewayVars, toolVars, mainVars, hookVars>>
  \/ EditTimerFires /\ UNCHANGED <<runVars, gatewayVars, toolVars, mainVars, hookVars>>
  \/ StreamTimerFires /\ UNCHANGED <<runVars, gatewayVars, toolVars, mainVars, hookVars>>
  \/ Tick /\ UNCHANGED <<runVars, gatewayVars, toolVars, mainVars, hookVars>>

SpecOrder == InitScenarioA /\ [][NextOrder]_vars

(* SpecStream: a run that streams its answer, on a platform that can fail *)
StreamAlphabet ==
  {Typing(TRUE), Label("fetching"), Stream("hi"), Stream("a partial answer, thirty chars+"),
   Stream("a partial answer, thirty chars+ and more"), Stream("an overlong answer"),
   Replace("final answer"), Finalize}

InitStream == RunInit /\ RenderStart(MaxFail, 0) /\ GatewayInit /\ ToolInit /\ MainIdle /\ HookInit

NextStream ==
  \/ (\E instr \in StreamAlphabet : Issue(instr, MaxStreamInstr)) /\ UNCHANGED <<runVars, gatewayVars, toolVars, mainVars, hookVars>>
  \/ CallReturns /\ UNCHANGED <<runVars, gatewayVars, toolVars, mainVars, hookVars>>
  \/ EditTimerFires /\ UNCHANGED <<runVars, gatewayVars, toolVars, mainVars, hookVars>>
  \/ StreamTimerFires /\ UNCHANGED <<runVars, gatewayVars, toolVars, mainVars, hookVars>>
  \/ Tick /\ UNCHANGED <<runVars, gatewayVars, toolVars, mainVars, hookVars>>

SpecStream == InitStream /\ [][NextStream]_vars

(* SpecUpload: a run that also sends files, on a reliable platform *)
UploadAlphabet ==
  {Typing(TRUE), Label("fetching"), Stream("a partial answer, thirty chars+"), Finalize}

NextUpload ==
  \/ (\E instr \in UploadAlphabet : Issue(instr, MaxUploadInstr)) /\ UNCHANGED <<runVars, gatewayVars, toolVars, mainVars, hookVars>>
  \/ UploadFile(MaxUploadInstr) /\ UNCHANGED <<runVars, gatewayVars, toolVars, mainVars, hookVars>>
  \/ UploadReturns /\ UNCHANGED <<runVars, gatewayVars, toolVars, mainVars, hookVars>>
  \/ CallReturns /\ UNCHANGED <<runVars, gatewayVars, toolVars, mainVars, hookVars>>
  \/ EditTimerFires /\ UNCHANGED <<runVars, gatewayVars, toolVars, mainVars, hookVars>>
  \/ StreamTimerFires /\ UNCHANGED <<runVars, gatewayVars, toolVars, mainVars, hookVars>>
  \/ Tick /\ UNCHANGED <<runVars, gatewayVars, toolVars, mainVars, hookVars>>

SpecUpload == InitScenarioA /\ [][NextUpload]_vars

(* SpecGateway: registration, readiness and requests in any order *)
NextGateway ==
  \/ (\E p \in Paths : Register(p)) /\ UNCHANGED <<runVars, renderVars, toolVars, mainVars, hookVars>>
  \/ (\E p \in Paths : MarkReady(p)) /\ UNCHANGED <<runVars, renderVars, toolVars, mainVars, hookVars>>
  \/ Start /\ UNCHANGED <<runVars, renderVars, toolVars, mainVars, hookVars>>
  \/ Stop /\ UNCHANGED <<runVars, renderVars, toolVars, mainVars, hookVars>>
  \/ (\E m \in Methods, u \in Urls : Request(m, u)) /\ UNCHANGED <<runVars, renderVars, toolVars, mainVars, hookVars>>

SpecGateway == Init /\ [][NextGateway]_vars

(* SpecDrain: the drain loop of one Telegram chat with user messages, slash *)
(* commands and events, and work items that reject                        *)
NextDrain ==
  \/ (\E item \in {"msg", "model"} : UserMessage(TgChan, item)) /\ UNCHANGED <<renderVars, gatewayVars, toolVars, mainVars, hookVars>>
  \/ TelegramEnqueueEvent(TgChan, MaxEvents) /\ UNCHANGED <<renderVars, gatewayVars, toolVars, mainVars, hookVars>>
  \/ PlainHandlerStep /\ UNCHANGED <<renderVars, gatewayVars, toolVars, mainVars, hookVars>>
  \/ (\E i \in 1..Len(calls[TgChan]) : SlashThrows(TgChan, i)) /\ UNCHANGED <<renderVars, gatewayVars, toolVars, mainVars, hookVars>>

SpecDrain == Init /\ [][NextDrain]_vars

(* SpecBusy: user messages on Telegram, by mail and on the web chat, and     *)
(* events, arriving in any order                                             *)
BusyRunInit ==
  /\ channelStates = {}
  /\ running = [ch \in AllChans |-> FALSE]
  /\ stopRequested = [ch \in AllChans |-> FALSE]
  /\ stopMessageTs = [ch \in AllChans |-> 0]
  /\ aborted = [ch \in AllChans |-> FALSE]
  /\ queues = [ch \in AllChans |-> <<>>]
  /\ processing = [ch \in AllChans |-> FALSE]
  /\ calls = [ch \in AllChans |-> <<>>]
  /\ pendingStops = [ch \in AllChans |-> 0]
  /\ notices = [ch \in AllChans |-> <<>>]
  /\ hist = HistInit

InitBusy == BusyRunInit /\ RenderInit /\ GatewayInit /\ ToolInit /\ MainIdle /\ HookInit

BusyHandlerStep ==
  \E ch \in AllChans : \E i \in 1..Len(calls[ch]) :
     \/ SlashDone(ch, i)
     \/ SetTypingDone(ch, i)
     \/ SetWorkingDone(ch, i)
     \/ AgentDone(ch, i)
     \/ FinalizeDone(ch, i)

NextBusy ==
  \/ (\E item \in {"msg", "model"} : UserMessage(TgChan, item)) /\ UNCHANGED <<renderVars, gatewayVars, toolVars, mainVars, hookVars>>
  \/ TelegramEnqueueEvent(TgChan, MaxEvents) /\ UNCHANGED <<renderVars, gatewayVars, toolVars, mainVars, hookVars>>
  \/ EmailMessage(EmailChan) /\ UNCHANGED <<renderVars, gatewayVars, toolVars, mainVars, hookVars>>
  \/ WebMessage(WebChan) /\ UNCHANGED <<renderVars, gatewayVars, toolVars, mainVars, hookVars>>
  \/ BusyHandlerStep /\ UNCHANGED <<renderVars, gatewayVars, toolVars, mainVars, hookVars>>

SpecBusy == InitBusy /\ [][NextBusy]_vars

(* SpecDrainLive: SpecDrain where every awaited call of a handleEvent        *)
(* invocation eventually returns                                             *)
DrainProgress ==
  PlainHandlerStep /\ UNCHANGED <<renderVars, gatewayVars, toolVars, mainVars, hookVars>>

SpecDrainLive == SpecDrain /\ WF_vars(DrainProgress)

(* SpecRun: one run of handleEvent on a Telegram chat, with the rendering    *)
(* context it creates                                                       *)
MaxAgentInstr == 2    \* context calls made by the agent during runner.run

\* the state in which handleEvent has just entered its try block
RunBegun ==
  /\ channelStates = {TgChan}
  /\ running = [ch \in Chans |-> ch = TgChan]
  /\ stopRequested = [ch \in Chans |-> FALSE]
  /\ stopMessageTs = [ch \in Chans |-> 0]
  /\ aborted = [ch \in Chans |-> FALSE]
  /\ queues = [ch \in Chans |-> <<>>]
  /\ processing = [ch \in Chans |-> ch = TgChan]
  /\ calls = [ch \in Chans |-> IF ch = TgChan THEN <<NewCall("typing", FALSE, TRUE)>> ELSE <<>>]
  /\ pendingStops = [ch \in Chans |-> 0]
  /\ notices = [ch \in Chans |-> <<>>]
  /\ hist = [HistInit EXCEPT !.nUser = 1, !.burst = FALSE]

InitRun == RunBegun /\ RenderStart(MaxFail, 0) /\ GatewayInit /\ ToolInit /\ MainIdle /\ HookInit

RunAt(pc) == Len(calls[TgChan]) = 1 /\ calls[TgChan][1].pc = pc

LastCall == Len(agent.issued)

\* the awaited context call has returned / has thrown
Returned0 == LastCall > 0 /\ Settled(LastCall) /\ LastCall \notin ctx.raised
Thrown == LastCall > 0 /\ Settled(LastCall) /\ LastCall \in ctx.raised

\* await ctx.setTyping(true): the call
RunCallsTyping ==
  /\ RunAt("typing") /\ agent.issued = <<>>
  /\ Issue(Typing(TRUE), 1)
  /\ UNCHANGED <<runVars, gatewayVars, toolVars, mainVars, hookVars>>

\* ctx.setTyping(true) returns; await ctx.setWorking(true): the call
RunTypingReturns ==
  /\ RunAt("typing") /\ LastCall = 1 /\ Returned0
  /\ SetTypingDone(TgChan, 1)
  /\ Issue(Working(TRUE), 2)
  /\ UNCHANGED <<gatewayVars, toolVars, mainVars, hookVars>>

\* ctx.setWorking(true) returns; runner.run is called
RunWorkingReturns ==
  /\ RunAt("working") /\ LastCall = 2 /\ Returned0
  /\ SetWorkingDone(TgChan, 1)
  /\ UNCHANGED <<renderVars, gatewayVars, toolVars, mainVars, hookVars>>

\* the agent calls a method of the context and awaits it
RunAgentCalls ==
  /\ RunAt("agent")
  /\ \E instr \in Alphabet : Issue(instr, 2 + MaxAgentInstr)
  /\ UNCHANGED <<runVars, gatewayVars, toolVars, mainVars, hookVars>>

\* runner.run returns; await ctx.setWorking(false): the call
RunAgentReturns ==
  /\ RunAt("agent") /\ ~Awaiting
  /\ AgentDone(TgChan, 1)
  /\ Issue(Finalize, 3 + MaxAgentInstr)
  /\ UNCHANGED <<gatewayVars, toolVars, mainVars, hookVars>>

\* ctx.setWorking(false) returns
RunFinalizeReturns ==
  /\ RunAt("finalize") /\ Returned0
  /\ FinalizeDone(TgChan, 1)
  /\ UNCHANGED <<renderVars, gatewayVars, toolVars, mainVars, hookVars>>

\* an awaited context call throws into handleEvent; inside runner.run a
\* context call that throws can end the agent run with that exception
RunCallThrows ==
  /\ \/ (RunAt("typing") \/ RunAt("working") \/ RunAt("finalize")) /\ Thrown
     \/ RunAt("agent") /\ ~Awaiting /\ \E n \in ctx.raised : n > 2
  /\ RunThrows(TgChan, 1)
  /\ UNCHANGED <<renderVars, gatewayVars, toolVars, mainVars, hookVars>>

NextRun ==
  \/ RunCallsTyping
  \/ RunTypingReturns
  \/ RunWorkingReturns
  \/ RunAgentCalls
  \/ RunAgentReturns
  \/ RunFinalizeReturns
  \/ RunCallThrows
  \/ CallReturns /\ UNCHANGED <<runVars, gatewayVars, toolVars, mainVars, hookVars>>
  \/ EditTimerFires /\ UNCHANGED <<runVars, gatewayVars, toolVars, mainVars, hookVars>>
  \/ StreamTimerFires /\ UNCHANGED <<runVars, gatewayVars, toolVars, mainVars, hookVars>>
  \/ Tick /\ UNCHANGED <<runVars, gatewayVars, toolVars, mainVars, hookVars>>

SpecRun == InitRun /\ [][NextRun]_vars

(* SpecAbort: the run of SpecRun with a "stop" of the user arriving at any    *)
(* moment                                                                    *)
\* runner.run rejects while no context call is awaited
RunAgentThrows ==
  /\ RunAt("agent") /\ ~Awaiting
  /\ RunThrows(TgChan, 1)
  /\ UNCHANGED <<renderVars, gatewayVars, toolVars, mainVars, hookVars>>

NextAbort ==
  \/ NextRun
  \/ RunAgentThrows
  \/ UserStop(TgChan) /\ UNCHANGED <<renderVars, gatewayVars, toolVars, mainVars, hookVars>>
  \/ StopPostDone(TgChan) /\ UNCHANGED <<renderVars, gatewayVars, toolVars, mainVars, hookVars>>
  \/ (\E i \in DOMAIN calls[TgChan] : MarkEditDone(TgChan, i)) /\ UNCHANGED <<renderVars, gatewayVars, toolVars, mainVars, hookVars>>
  \/ (\E i \in DOMAIN calls[TgChan] : MarkPostDone(TgChan, i)) /\ UNCHANGED <<renderVars, gatewayVars, toolVars, mainVars, hookVars>>

SpecAbort == InitRun /\ [][NextAbort]_vars

(* SpecMain: the start of the process, with requests arriving meanwhile *)
InitMain == RunInit /\ RenderInit /\ GatewayInit /\ ToolInit /\ MainInit /\ HookInit

NextMain ==
  \/ MainGatewayStart /\ UNCHANGED <<runVars, renderVars, toolVars, hookVars>>
  \/ MainRegister /\ UNCHANGED <<runVars, renderVars, toolVars, hookVars>>
  \/ MainStartResolves /\ UNCHANGED <<runVars, renderVars, toolVars, hookVars>>
  \/ MainStartFails /\ UNCHANGED <<runVars, renderVars, toolVars, hookVars>>
  \/ (\E m \in Methods, u \in Urls : MainRequest(m, u)) /\ UNCHANGED <<runVars, renderVars, toolVars, hookVars>>

SpecMain == InitMain /\ [][NextMain]_vars

(* SpecHook: requests handed to the webhook adapters *)
NextHook ==
  \/ (\E token \in Tokens, body \in Bodies : TelegramWebhook(token, body))
        /\ UNCHANGED <<runVars, renderVars, gatewayVars, toolVars, mainVars>>
  \/ (\E timestamp \in Timestamps, signature \in Signatures, body \in Bodies :
         SlackWebhook(timestamp, signature, body))
        /\ UNCHANGED <<runVars, renderVars, gatewayVars, toolVars, mainVars>>
  \/ (\E body \in Bodies : EmailWebhook(body))
        /\ UNCHANGED <<runVars, renderVars, gatewayVars, toolVars, mainVars>>

SpecHook == Init /\ [][NextHook]_vars

(* SpecSend: invocations of the send_message tool *)
InitSend == RunInit /\ RenderInit /\ GatewayInit /\ ToolStart /\ MainIdle /\ HookInit

NextSend ==
  (\E channel \in ChannelIds, nAtt \in {0, 1}, signalAborted \in BOOLEAN, postOk \in BOOLEAN :
      SendMessage(channel, nAtt, signalAborted, postOk))
  /\ UNCHANGED <<runVars, renderVars, gatewayVars, mainVars, hookVars>>

SpecSend == InitSend /\ [][NextSend]_vars

----------------------------------------------------------------------------
(* Properties of the run coordinator and the queue *)

\* runs of ch: handleEvent invocations between "running = true" and finally
ActiveRuns(ch) == {i \in 1..Len(calls[ch]) : calls[ch][i].pc # "slash"}

Quiescent(ch) == Len(queues[ch]) = 0 /\ Len(calls[ch]) = 0 /\ ~processing[ch]

EventItems(ch) == {k \in 1..Len(queues[ch]) : queues[ch][k] = "event"}

\* C1: at most one run of a conversation is active at any instant.
C1_AtMostOneActiveRun ==
  \A ch \in Chans : Cardinality(ActiveRuns(ch)) <= 1

\* C2: isRunning(id) is true exactly while a run of id has begun and has not
\* completed.
C2_IsRunningIffRunActive ==
  \A ch \in Chans : isRunning(ch) <=> (ActiveRuns(ch) # {})

\* C4 (as claimed): the queue enqueueEvent fills never holds more than 5
\* pending work items.
C4_QueueAtMostFive ==
  \A ch \in Chans : Len(queues[ch]) <= QueueCapacity

\* C4 (amended): the queue never holds more than 5 pending externally sourced
\* work items; user messages queued behind a slash command are not counted
\* against the capacity.
C4_EventItemsAtMostFive ==
  \A ch \in Chans : Cardinality(EventItems(ch)) <= QueueCapacity

C4_Witness ==
  /\ Cardinality(EventItems(TgChan)) = QueueCapacity
  /\ Len(queues[TgChan]) > QueueCapacity
  /\ hist.evAccepted < hist.evAttempts

\* C5 (as claimed): of 6 events submitted to an idle conversation while the
\* first is still being handled, 5 run and the 6th is rejected.
C5_SixSubmittedFiveRun ==
  (hist.burst /\ hist.burstN = 6) =>
     (hist.burstRejected = 1 /\ hist.evStarted <= 5)

\* C5 (amended): the first event leaves the queue as soon as it is enqueued,
\* so of k events submitted while the first is still being handled the first
\* 6 are accepted and run and only those after the 6th are rejected.
C5_SevenSubmittedSixRun ==
  hist.burst =>
     /\ hist.burstRejected = hist.burstN - Min(hist.burstN, QueueCapacity + 1)
     /\ hist.evStarted <= hist.evAccepted
     /\ Quiescent(TgChan) => hist.evStarted = Min(hist.burstN, QueueCapacity + 1)

C5_Witness ==
  /\ hist.burst /\ hist.burstN = 7 /\ hist.burstRejected = 1
  /\ Quiescent(TgChan) /\ hist.evStarted = 6

\* C10: a stop request on a conversation that is not running reports
\* "nothing running" and changes no run state.
C10_IdleStopChangesNothing ==
  [][\A ch \in Chans :
       (RequestStop(ch) /\ ~isRunning(ch)) =>
          /\ running' = running
          /\ stopRequested' = stopRequested
          /\ stopMessageTs' = stopMessageTs
          /\ aborted' = aborted
          /\ pendingStops' = pendingStops
          /\ channelStates' = channelStates
          /\ ~(ch \in channelStates' /\ running'[ch])
          /\ notices'[ch] = Append(notices[ch], "_Nothing running_")]_vars

C10_Witness ==
  /\ TgChan \in channelStates /\ ~running[TgChan]
  /\ hist.nStop = 1
  /\ Len(notices[TgChan]) > 0
  /\ notices[TgChan][Len(notices[TgChan])] = "_Nothing running_"

----------------------------------------------------------------------------
(* Properties of the rendering context *)

IsFinalize(n) == agent.issued[n] = Finalize

\* Replace, Delete or finalize
Terminal(n) == agent.issued[n].k \in {"replace", "delete"} \/ IsFinalize(n)

AllSettled == ctx.chain = <<>> /\ chat.inflight = NoOp

TimersIdle == ctx.editTimer = NoTimer /\ ctx.streamEditTimer = NoTimer

Alive == {id \in DOMAIN chat.msgs : chat.msgs[id].alive}

OpsBy(n) == {i \in DOMAIN chat.ops : chat.ops[i].by = n}

\* the messages posted on behalf of the calls before call n
CreatedBefore(n) ==
  {chat.ops[i].id : i \in {j \in DOMAIN chat.ops :
      chat.ops[j].op = "post" /\ chat.ops[j].ok /\ chat.ops[j].by < n}}

NoSendFailure == \A i \in DOMAIN chat.ops : chat.ops[i].ok \/ chat.ops[i].op = "delete"

\* C3: platform operations take effect in production order: no operation
\* caused by an earlier instruction (a timer-deferred flush included) is
\* applied after an operation caused by a later Replace, Delete or finalize.
C3_NothingAfterLaterTerminal ==
  \A i, j \in DOMAIN chat.ops :
     (i < j /\ Terminal(chat.ops[i].by)) => chat.ops[j].by >= chat.ops[i].by

\* C6: a second setWorking(false) on the same context issues no platform
\* operation (no post, edit or delete).
C6_SecondFinalizeIssuesNothing ==
  \A n \in DOMAIN agent.issued :
     (n > 1 /\ IsFinalize(n) /\ IsFinalize(n - 1)) => OpsBy(n) = {}

TwoMessages(n) ==
  /\ Cardinality(CreatedBefore(n)) = 2
  /\ \E id \in CreatedBefore(n) : chat.msgs[id].role = "status"
  /\ \E id \in CreatedBefore(n) : chat.msgs[id].role \in {"stream", "final"}

----------------------------------------------------------------------------
(* Properties of the gateway *)

\* C7: a POST to a registered route that is not ready is answered 503 without
\* the route handler being invoked; the same request once markReady(path) has
\* been called is handed to the route handler.
C7_NotReady503ThenDispatched ==
  \A i \in DOMAIN http :
     (http[i].method = "POST" /\ http[i].registered) =>
        /\ ~http[i].ready => (http[i].status = 503 /\ http[i].handler = NoHandler)
        /\ http[i].ready => http[i].handler = HandlerOf(http[i].url)

C7_Witness ==
  \E i, j \in DOMAIN http :
     /\ i < j /\ http[i].url = http[j].url /\ http[i].method = "POST" /\ http[j].method = "POST"
     /\ http[i].registered /\ ~http[i].ready /\ http[i].status = 503
     /\ http[j].registered /\ http[j].ready /\ http[j].handler = HandlerOf(http[j].url)

IsHealth(r) == r.method = "GET" /\ r.url = "/health"

\* C11: GET /health is answered 200 in every state of the started gateway,
\* whatever is registered or ready.
C11_HealthAlways200 ==
  \A i \in DOMAIN http : IsHealth(http[i]) => (http[i].status = 200 /\ http[i].handler = NoHandler)

C11_Witness ==
  /\ \E i \in DOMAIN http : IsHealth(http[i]) /\ http[i].status = 200
  /\ \E p \in Paths : gateway.routes[p] # NoHandler
  /\ gateway.readyRoutes = {}

\* C12 (as claimed): every request to a path that is not registered, GET
\* /health apart, is answered 404, every request with another method than POST
\* to a registered path 405, and no handler is invoked.
C12_Unregistered404 ==
  \A i \in DOMAIN http :
     /\ (~http[i].registered /\ ~IsHealth(http[i])) =>
           (http[i].status = 404 /\ http[i].handler = NoHandler)
     /\ (http[i].registered /\ http[i].method # "POST") =>
           (http[i].status = 405 /\ http[i].handler = NoHandler)

\* C12 (amended): every POST to a path that is not registered is answered 404;
\* every request with another method than POST, GET /health apart, is answered
\* 405, whether its path is registered or not; no handler is invoked.
C12_Post404OtherMethod405 ==
  \A i \in DOMAIN http :
     /\ (~http[i].registered /\ http[i].method = "POST") =>
           (http[i].status = 404 /\ http[i].handler = NoHandler)
     /\ (http[i].method # "POST" /\ ~IsHealth(http[i])) =>
           (http[i].status = 405 /\ http[i].handler = NoHandler)

C12_Witness ==
  \E i, j \in DOMAIN http :
     /\ ~http[i].registered /\ http[i].method = "POST" /\ http[i].status = 404
     /\ ~http[j].registered /\ http[j].method = "GET" /\ ~IsHealth(http[j])
     /\ http[j].status = 405

\* C13: an exception thrown by a route handler does not leave the gateway's
\* request listener.
C13_HandlerThrowContained ==
  \A i \in DOMAIN http : ~http[i].escaped

----------------------------------------------------------------------------
(* Properties of the send_message tool *)

Structured(out) ==
  \/ out.kind = "sent" /\ out.adapter # Undefined /\ out.ts > 0
  \/ out.kind \in {"no adapter", "failed"}

\* C14 (as claimed): every invocation of execute returns a structured text
\* result and never throws, also when the abort signal is already set.
C14_ExecuteNeverThrows ==
  \A i \in DOMAIN sender.calls : Structured(sender.calls[i].out)

\* C14 (amended): an invocation whose abort signal is not set returns a
\* structured text result and never throws, whether the channel resolves to
\* no adapter or postMessage throws; an invocation whose abort signal is
\* already set throws "Operation aborted" and sends nothing.
C14_ExecuteThrowsOnlyOnAbort ==
  /\ \A i \in DOMAIN sender.calls :
        LET c == sender.calls[i]
        IN /\ ~c.aborted => Structured(c.out)
           /\ c.aborted => c.out.kind = "throw"
           /\ c.out.kind = "sent" =>
                /\ c.out.ts \in DOMAIN sender.sent
                /\ sender.sent[c.out.ts].adapter = c.out.adapter
                /\ sender.sent[c.out.ts].channel = c.out.channel
  /\ Len(sender.sent) = Cardinality({i \in DOMAIN sender.calls : sender.calls[i].out.kind = "sent"})

C14_Witness ==
  \E i, j \in DOMAIN sender.calls :
     /\ sender.calls[i].out.kind = "failed" /\ ~sender.calls[i].postOk
     /\ sender.calls[j].aborted /\ sender.calls[j].out.kind = "throw"

Expected(name) == IF \E i \in DOMAIN sender.adapters : sender.adapters[i] = name
                  THEN name ELSE Undefined

\* C15: a purely numeric id (with an optional leading minus) resolves to the
\* telegram adapter, an id starting with C, D or G to slack, an id starting
\* with "email-" to email, any other id to none; an absent adapter gives none.
C15_ResolveByPattern ==
  \A ch \in ChannelIds :
     resolveAdapter(ch, sender.adapters) =
       CASE ch \in {<<"1", "2">>, <<"-", "7">>} -> Expected("telegram")
         [] ch \in {<<"C", "1">>, <<"D">>, <<"G", "e">>} -> Expected("slack")
         [] ch = <<"e", "m", "a", "i", "l", "-", "a">> -> Expected("email")
         [] OTHER -> Undefined

C15_Witness ==
  /\ sender.adapters = <<"slack", "email">>
  /\ \E i, j \in DOMAIN sender.calls :
       /\ sender.calls[i].out.channel = <<"-", "7">> /\ sender.calls[i].out.kind = "no adapter"
       /\ sender.calls[j].out.channel = <<"C", "1">> /\ sender.calls[j].out.kind = "sent"
       /\ sender.calls[j].out.adapter = "slack"

----------------------------------------------------------------------------
(* Properties of error handling in the run coordinator *)

\* C16: when an awaited call inside handleEvent's try block throws, the run
\* ends there: its finally block clears running, so that afterwards the
\* conversation is not running unless the drain loop has begun the next run.
C16_ThrowEndsRun ==
  [][\A ch \in Chans : \A i \in DOMAIN calls[ch] :
       RunThrows(ch, i) =>
          /\ \A k \in DOMAIN calls'[ch] : calls'[ch][k].pc \in {"slash", "typing"}
          /\ running'[ch] <=> (\E k \in DOMAIN calls'[ch] : calls'[ch][k].pc = "typing")
          /\ Len(queues[ch]) = 0 => (~running'[ch] /\ Len(calls'[ch]) = 0)]_vars

C16_Witness ==
  /\ hist.nThrow = 1
  /\ running[TgChan]
  /\ \E k \in DOMAIN calls[TgChan] : calls[TgChan][k].pc = "agent"

\* a post or an edit of call m has failed
SendFailedIn(m) ==
  \E i \in OpsBy(m) : ~chat.ops[i].ok /\ chat.ops[i].op # "delete"

\* C17: after a post or an edit of the rendering pipeline has failed, no later
\* call on the same context rejects because of it.
C17_LaterCallsSurviveFailure ==
  \A n \in DOMAIN agent.issued :
     (\E m \in 1..(n - 1) : SendFailedIn(m)) => n \notin ctx.raised

\* handleEvent has called runner.run
AgentInvoked == Len(agent.issued) >= 2 /\ Settled(2) /\ 2 \notin ctx.raised

\* C18: a failed post or edit of the rendering context never fails the run:
\* a run of handleEvent that has ended has called runner.run.
C18_RenderFailureNeverFailsRun ==
  Len(calls[TgChan]) = 0 => AgentInvoked


----------------------------------------------------------------------------
(* Properties of the start of the process *)

\* the route of an adapter, when it has one
RouteOf(name) == IF HasDispatch(name) THEN DISPATCH_PATHS(name) ELSE NoPath

\* the state after any number of steps of main
StartedBehindGateway ==
  /\ boot.pc \in {"loop", "starting", "done"} => gateway.server
  /\ gateway.readyRoutes \subseteq {DISPATCH_PATHS(n) : n \in boot.started}
  /\ \A n \in boot.failed :
        RouteOf(n) # NoPath =>
           gateway.routes[RouteOf(n)] # NoHandler /\ RouteOf(n) \notin gateway.readyRoutes
  /\ boot.pc = "done" =>
        \A k \in DOMAIN boot.adapters :
           LET n == boot.adapters[k]
           IN /\ n \in boot.started \cup boot.failed
              /\ (n \in boot.started /\ RouteOf(n) # NoPath) => RouteOf(n) \in gateway.readyRoutes

\* a POST to the route of an adapter whose start() has failed
FailedRouteAnswers503 ==
  Len(http') > Len(http) =>
     LET r == http'[Len(http')]
     IN (r.method = "POST" /\ \E n \in boot.failed : RouteOf(n) = r.url) => r.status = 503

\* C19: the adapters start one by one behind the listening gateway; when the
\* start() of one fails every other adapter is still started and its route
\* marked ready, the route of the failed one stays registered and answers 503
\* from then on, and a route is marked ready only after the start() of its
\* adapter has resolved
C19_AdaptersStartIndependently == [](StartedBehindGateway) /\ [][FailedRouteAnswers503]_vars

C19_Witness ==
  /\ boot.pc = "done"
  /\ Len(boot.adapters) >= 2
  /\ boot.adapters[1] \in boot.failed
  /\ RouteOf(boot.adapters[1]) # NoPath
  /\ RouteOf(boot.adapters[2]) \in gateway.readyRoutes
  /\ \E k \in DOMAIN http :
        http[k].method = "POST" /\ http[k].url = RouteOf(boot.adapters[1]) /\ http[k].status = 503
           /\ http[k].registered


----------------------------------------------------------------------------
(* Properties of the webhook adapters *)

\* the request fails verification or parsing: the secret token is missing or
\* wrong, a signature header is missing, the timestamp is outside the replay
\* window, the signature is not the one of the request, the body is not
\* JSON, or the email payload has no from or no body
FailsVerification(r) ==
  CASE r.adapter = "telegram" -> r.token # "secret" \/ ~JSONParse(r.body).ok
    [] r.adapter = "slack" ->
         \/ r.timestamp = "" \/ r.signature = ""
         \/ r.timestamp \in {"699", "1301"}
         \/ r.signature # "v0=valid"
         \/ ~JSONParse(r.body).ok
    [] OTHER -> ~JSONParse(r.body).ok \/ ~JSONParse(r.body).from \/ ~JSONParse(r.body).body

\* C20 (as claimed): a webhook request that fails verification or parsing is
\* answered with a 4xx status and passes nothing on to processing
C20_RejectedWith4xx ==
  \A k \in DOMAIN webhook :
     FailsVerification(webhook[k]) =>
        webhook[k].status \in 400..499 /\ webhook[k].work = NoWork


----------------------------------------------------------------------------
(* Properties of the drain loop *)

\* the work items of the drain loop whose promise has not settled
InFlight(ch) == {i \in DOMAIN calls[ch] : calls[ch][i].queued}

\* C21: in one conversation at most one work item started by the drain loop
\* is unsettled at any instant, the loop is active exactly while one is, and
\* an item waits in the queue only while the loop is active
C21_DrainOneAtATime ==
  \A ch \in Chans :
     /\ Cardinality(InFlight(ch)) <= 1
     /\ processing[ch] <=> InFlight(ch) # {}
     /\ Len(queues[ch]) > 0 => processing[ch]

C21_Witness ==
  /\ Cardinality(InFlight(TgChan)) = 1
  /\ Len(queues[TgChan]) = 1
  /\ hist.evDone = 1

\* the invocation the drain loop starts for a queue item
StartedFor(item) == NewCall(IF item = "model" THEN "slash" ELSE "typing", item = "event", TRUE)

\* C22: when the promise of a work item rejects, the drain loop goes on: it
\* starts the item at the front of the queue and leaves the others queued in
\* their order; with an empty queue it ends
C22_RejectionKeepsDraining ==
  [][\A i \in DOMAIN calls[TgChan] :
        SlashThrows(TgChan, i) =>
           IF Len(queues[TgChan]) > 0
           THEN /\ queues'[TgChan] = Tail(queues[TgChan])
                /\ calls'[TgChan] = <<StartedFor(Head(queues[TgChan]))>>
                /\ processing'[TgChan]
           ELSE /\ calls'[TgChan] = <<>>
                /\ ~processing'[TgChan]]_vars

C22_Witness ==
  /\ hist.nReject = 1
  /\ hist.behind = 2
  /\ hist.evDone = 2


----------------------------------------------------------------------------
(* Properties of the start and the end of a run *)

\* C23: a handleEvent invocation that reaches "Start run" for a conversation
\* that is running starts no second run and leaves the stopRequested flag of
\* the active run as it is
C23_StartWhileRunningFails ==
  [][\A ch \in Chans :
        (isRunning(ch) /\ HeartbeatEnqueueEvent(ch)) =>
           /\ calls'[ch] = calls[ch]
           /\ stopRequested'[ch] = stopRequested[ch]]_vars


\* C24: a run that ends aborted after a stop request never posts a separate
\* "_Stopped_" message: it edits the "_Stopping..._" message of the request,
\* also when the post of that message is still pending at the run's end
C24_StoppedEditsIndicator ==
  \A ch \in Chans :
     /\ \A i \in DOMAIN calls[ch] : calls[ch][i].pc # "markPost"
     /\ (Len(calls[ch]) = 0 /\ pendingStops[ch] = 0 /\ hist.nUser = 1 /\ hist.evAttempts = 0) =>
           ~(\E j, k \in DOMAIN notices[ch] :
                notices[ch][j] = "_Stopping..._" /\ notices[ch][k] = "_Stopped_")


\* a handleEvent invocation passes "Start run" in this step
RunStarts(ch) ==
  \E k \in DOMAIN calls'[ch] :
     /\ calls'[ch][k].pc = "typing"
     /\ k \in DOMAIN calls[ch] => calls[ch][k].pc # "typing"

\* C25: no stop-marker handle is recorded when a run starts: the handle of an
\* earlier run is gone whether that run ended aborted or normally, and a post
\* of handleStop that resolves after the run's end records none
C25_NoStopHandleAtRunStart ==
  [][\A ch \in Chans : RunStarts(ch) => stopMessageTs'[ch] = 0]_vars


----------------------------------------------------------------------------
(* Properties of Replace, of the throttle and of the buffers *)

IsReplace(n) == agent.issued[n].k = "replace" /\ ~Blank(agent.issued[n].t)

\* the successful posts and edits call n made of the message that holds the
\* final answer
FinalOpsBy(n) ==
  {i \in OpsBy(n) : chat.ops[i].ok /\ chat.ops[i].op \in {"post", "edit"}
                      /\ chat.ops[i].id = ctx.finalMessageId}

\* C26: when a Replace with a text has returned, no debounce or stream timer
\* is pending, no interim text is buffered, the call has made exactly one post
\* or edit of the final message, an edit when a stream message existed, and
\* each Replace has logged its text once
C26_ReplaceIsDefinitive ==
  \A n \in DOMAIN agent.issued :
     (IsReplace(n) /\ n = Len(agent.issued) /\ Settled(n) /\ n \notin ctx.raised) =>
        /\ TimersIdle
        /\ ctx.pendingText = NoText
        /\ Cardinality(FinalOpsBy(n)) = 1
        /\ \A i \in FinalOpsBy(n) :
              chat.ops[i].op = "edit" <=> chat.ops[i].id \in CreatedBefore(n)
        /\ Len(ctx.log) = Cardinality({m \in 1..n : IsReplace(m)})


\* C27: a post or an edit of the status message is issued only when the
\* minimum inter-edit interval has passed since the last one, whichever call
\* issues it
C27_StatusOpsSpaced ==
  chat.inflight.role = "status" => ctx.sinceEdit >= EDIT_THROTTLE_MS


\* the debounced flushes that are armed or chained and have not run
PendingFlushes ==
  Cardinality({i \in DOMAIN ctx.chain : ctx.chain[i].k = "flushW"})
    + (IF ctx.editTimer # NoTimer THEN 1 ELSE 0)

\* entry k of the working message has been sent in a post or an edit of a
\* status message
Shown(k) ==
  \E id \in DOMAIN chat.msgs :
     /\ chat.msgs[id].role = "status"
     /\ Len(chat.msgs[id].text.entries) >= k
     /\ chat.msgs[id].text.entries[k] = ctx.workingEntries[k]

\* C28: at most one debounced flush of the status message is pending at any
\* time, and when finalize has returned every entry of the working message
\* (tool labels and committed interim texts) has been sent in a post or an
\* edit of the status message
C28_CoalescedNeverDropped ==
  /\ PendingFlushes <= 1
  /\ \A n \in DOMAIN agent.issued :
        (IsFinalize(n) /\ n = Len(agent.issued) /\ Settled(n) /\ n \notin ctx.raised
            /\ NoSendFailure) =>
           /\ ctx.pendingText = NoText
           /\ \A k \in DOMAIN ctx.workingEntries : Shown(k)


\* call n is a ContentAppend: respond(text, true) with a text
IsContent(n) ==
  agent.issued[n].k = "respond" /\ agent.issued[n].shouldLog /\ ~Blank(agent.issued[n].t)

\* call n has returned without an exception
Returned1(n) == Settled(n) /\ n \notin ctx.raised

\* the text of call n is an entry of the working message
Committed(n) ==
  \E k \in DOMAIN ctx.workingEntries :
     ctx.workingEntries[k] = [kind |-> "text", t |-> agent.issued[n].t]

\* C29: a ContentAppend issues no platform operation for its own text, which
\* stays pending when the call has returned; when the next call of any kind
\* has returned the text is an entry of the working message, unless that call
\* is a Replace, which discards it
C29_PendingCommittedByNext ==
  \A n \in DOMAIN agent.issued :
     (IsContent(n) /\ Returned1(n)) =>
        /\ OpsBy(n) # {} => \E m \in 1..(n - 1) : IsContent(m)
        /\ n = Len(agent.issued) => ctx.pendingText = agent.issued[n].t
        /\ (n + 1 = Len(agent.issued) /\ Returned1(n + 1)) =>
              IF IsReplace(n + 1) THEN ctx.pendingText = NoText ELSE Committed(n)

\* C30: streaming sends nothing before a chunk of at least STREAM_MIN_CHARS has
\* arrived, and its first post carries at least that much; once streaming
\* has stopped (a chunk above STREAM_MAX_CHARS has been handled, or a stream
\* post or edit was refused) it stays stopped and no post or edit with the
\* streamed text is issued any more
IsStream(n) == agent.issued[n].k = "respond" /\ agent.issued[n].prefix = "__STREAM__"
StreamOpInFlight == chat.inflight.role = "stream"
C30_StreamStartsLateStopsForGood ==
  /\ [](/\ StreamOpInFlight =>
             /\ ~ctx.streamStopped
             /\ \E n \in DOMAIN agent.issued :
                   IsStream(n) /\ StrLen(agent.issued[n].t) >= STREAM_MIN_CHARS
             /\ chat.inflight.op = "post" =>
                   StrLen(chat.inflight.text.t) >= STREAM_MIN_CHARS
       /\ \A n \in DOMAIN agent.issued :
             (IsStream(n) /\ StrLen(agent.issued[n].t) > STREAM_MAX_CHARS
                /\ Settled(n) /\ n \notin ctx.raised) => ctx.streamStopped)
  /\ [][ctx.streamStopped => ctx'.streamStopped]_vars

C30_Witness ==
  /\ ctx.streamStopped /\ ctx.streamMessageId # Null
  /\ Len(agent.issued) = 3 /\ Settled(3) /\ OpsBy(3) = {}
  /\ agent.issued[2] = Stream("an overlong answer")
  /\ agent.issued[3] = Stream("a partial answer, thirty chars+ and more")
  /\ chat.inflight = NoOp /\ ctx.streamEditTimer = NoTimer

\* C31: once a deleteMessage call that is the last call issued has returned,
\* no timer is pending, no message the context posted is still in the chat,
\* and no flush scheduled earlier is waiting to post or edit
IsDelete(n) == agent.issued[n] = Delete
AliveMessages == {id \in DOMAIN chat.msgs : chat.msgs[id].alive}
C31_DeleteRemovesEverything ==
  \A n \in DOMAIN agent.issued :
     (IsDelete(n) /\ n = Len(agent.issued) /\ Settled(n) /\ n \notin ctx.raised) =>
        /\ TimersIdle
        /\ AliveMessages = {}
        /\ ctx.chain = <<>> /\ chat.inflight = NoOp

\* C32: when the calls of a run were status updates only (no Replace, no
\* stream chunk, no logged text) and finalize, the last call, has returned,
\* no status message is left in the chat
StatusOnly ==
  \A m \in DOMAIN agent.issued :
     \/ agent.issued[m] \in {Typing(TRUE), Finalize}
     \/ agent.issued[m].k = "respond" /\ ~agent.issued[m].shouldLog
                                      /\ agent.issued[m].prefix # "__STREAM__"
C32_StatusOnlyRunLeavesNothing ==
  \A n \in DOMAIN agent.issued :
     (IsFinalize(n) /\ n = Len(agent.issued) /\ Settled(n) /\ n \notin ctx.raised
        /\ StatusOnly) =>
        \A id \in AliveMessages : chat.msgs[id].role # "status"

\* C33: a platform call of a context call begins only when no platform call
\* of an earlier call is still in flight; for uploadFile: sendDocument never
\* begins while a post, edit or delete of the chain is in flight
C33_UploadWaitsForChain == ~chat.upload.overtook

\* C34: a run that runner.run reported as aborted is marked complete
\* (running set to false) only after setWorking(false), its last context
\* call, has been executed behind every earlier call
RunCompletes == running[TgChan] /\ ~running'[TgChan]
FinalizeExecuted ==
  /\ LastCall > 0 /\ IsFinalize(LastCall)
  /\ \A m \in 1..LastCall : Settled(m) /\ m \notin ctx.raised
C34_AbortedRunStillFinalizes ==
  [][(RunCompletes /\ Len(calls[TgChan]) = 1 /\ calls[TgChan][1].result = "aborted")
        => FinalizeExecuted]_vars

\* C35: when replaceMessage(t) and then setWorking(false), the last call,
\* have returned, the message recorded as the final answer shows t
C35_FinalAnswerKeepsReplaceText ==
  \A n \in DOMAIN agent.issued :
     (IsReplace(n) /\ n + 1 = Len(agent.issued) /\ IsFinalize(n + 1)
        /\ Returned1(n) /\ Returned1(n + 1) /\ ctx.finalMessageId # Null) =>
        chat.msgs[ctx.finalMessageId].text = Text(agent.issued[n].t)

\* C36: once setWorking(false), the last call issued, has returned, the
\* context issues no platform call any more: no timer is pending, no flush
\* waits on the chain and no call is in flight
C36_NothingAfterFinalize ==
  \A n \in DOMAIN agent.issued :
     (IsFinalize(n) /\ n = Len(agent.issued) /\ Returned1(n)) =>
        TimersIdle /\ ctx.chain = <<>> /\ chat.inflight = NoOp

\* C37: when deleteMessage and then setWorking(false), the last call, have
\* returned one after the other, no message the context posted is in the chat
C37_DeleteThenFinalizeLeavesNothing ==
  \A n \in DOMAIN agent.issued :
     (IsDelete(n) /\ n + 1 = Len(agent.issued) /\ IsFinalize(n + 1)
        /\ Returned1(n) /\ Returned1(n + 1)) =>
        AliveMessages = {}

\* C38: when handleEvent has completed, no status message of the run is
\* left showing the working spinner
RunOver == calls[TgChan] = <<>>
C38_NoSpinnerAfterRun ==
  RunOver =>
     \A id \in AliveMessages :
        chat.msgs[id].role = "status" => ~chat.msgs[id].text.spinner

\* C39: there is no lost wake-up: a non-empty queue always has its drain
\* loop awaiting a work item, and the processing flag is not left set when no
\* loop awaits one; when every awaited call returns, every accepted event is
\* started and the queue drains
C39_NoLostWakeup ==
  /\ [](\A ch \in Chans :
          /\ Len(queues[ch]) > 0 => InFlight(ch) # {}
          /\ InFlight(ch) = {} => ~processing[ch])
  /\ \A k \in 1..MaxEvents : (hist.evAccepted >= k) ~> (hist.evStarted >= k)
  /\ (Len(queues[TgChan]) > 0) ~> (queues[TgChan] = <<>> /\ ~processing[TgChan])

C39_Witness ==
  /\ hist.evAccepted = 2 /\ hist.evStarted = 2 /\ hist.evDone = 2 /\ hist.nUser >= 1
  /\ queues[TgChan] = <<>> /\ ~processing[TgChan]

\* C40: a user message that arrives while isRunning(channel) is true starts
\* no run and is put on no queue: Telegram and the web chat answer with a
\* notice, mail is dropped; whatever is put on a queue while a run is active
\* is an event
Arrives(ch) ==
  CASE ch = TgChan -> \E item \in {"msg", "model"} : UserMessage(ch, item)
    [] ch = EmailChan -> EmailMessage(ch)
    [] ch = WebChan -> WebMessage(ch)
    [] OTHER -> FALSE
====
